---- MODULE Spec2Model ----
(***************************************************************************)
(* Session keys and spend-limited transfers of the agent protocol.         *)
(*                                                                         *)
(* Amounts are JavaScript numbers in the chain's decimal unit.  The model  *)
(* keeps them on a decimal grid and counts grid steps with integers: one   *)
(* step is 0.01 SOL on Solana and 0.001 ETH on Ethereum, so that           *)
(* DEFAULT_SESSION_CONFIG (0.1 / 0.05 SOL, 0.01 / 0.005 ETH) reads 10 / 5  *)
(* on both chains.                                                         *)
(***************************************************************************)
EXTENDS Integers, FiniteSets, Sequences, TLC

\* ---------------------------------------------------------------- bounds

\* Concurrent callers of one SessionValidator (async tool calls in flight).
NumTasks == 2

\* validate calls made on one validator instance.
MaxCalls == 3

\* handleSend invocations the user starts in one run.
MaxSends == 2

\* handleRevokeSession invocations the user starts in one run.
MaxRevokes == 2

\* Funding handlers the user starts in one run.
MaxFunds == 2

\* ------------------------------------------------------------ input sets

Tasks == 1..NumTasks

\* Recipient strings a tool call can carry.
Recipients == {"addrA", "addrB"}

\* Amounts a tool call can carry, in grid steps: negative, zero, one step,
\* the default per-transaction limit and one step above it.
Amounts == {-1, 0, 1, 5, 6}

\* An optional array (allowedMerchantsSOL?: string[]) is the empty set when
\* the field is absent and the singleton of its array when it is given.
Absent == {}

Given(list) == {list}

\* tools.ts 497-502
DEFAULT_SESSION_CONFIG ==
    [maxSpendSOL |-> 10, maxSpendETH |-> 10,
     maxPerTxSOL |-> 5, maxPerTxETH |-> 5,
     allowedMerchantsSOL |-> Absent, allowedMerchantsETH |-> Absent]

\* The configurations handed to `new SessionValidator(config)`: the default,
\* the default limits with an allow-list (one recipient, and the empty array),
\* and limits whose per-transaction ceiling is above the session ceiling.
SessionConfigs ==
    { DEFAULT_SESSION_CONFIG,
      [DEFAULT_SESSION_CONFIG EXCEPT !.allowedMerchantsSOL = Given(<<"addrA">>),
                                     !.allowedMerchantsETH = Given(<<"addrA">>)],
      [DEFAULT_SESSION_CONFIG EXCEPT !.allowedMerchantsSOL = Given(<< >>),
                                     !.allowedMerchantsETH = Given(<< >>)],
      [DEFAULT_SESSION_CONFIG EXCEPT !.maxSpendSOL = 5, !.maxPerTxSOL = 6,
                                     !.maxSpendETH = 5, !.maxPerTxETH = 6] }

\* ------------------------------------------------------------- variables

VARIABLES
    config,       \* SessionValidator.config
    spentSOL,     \* SessionValidator.spentSOL
    spentETH,     \* SessionValidator.spentETH
    task,         \* each caller's position between validate and addSpent
    calls,        \* validate calls made so far
    approvedSOL,  \* history: sum of the SOL amounts validateSOL let through
    approvedETH,  \* history: sum of the ETH amounts validateETH let through
    approvals     \* history: the requests the validator let through

guardVars == <<config, spentSOL, spentETH, task, calls, approvedSOL, approvedETH,
               approvals>>

\* The agent modal (AIAgentModal) and what it reaches.
VARIABLES
    apiKey,         \* process.env.NEXT_PUBLIC_GEMINI_API_KEY is set
    isOpen,         \* the modal's isOpen prop
    storedKey,      \* localStorage "ai_session_key"
    storedEthKey,   \* localStorage "ai_session_key_eth"
    sessionKey,     \* state: SOL keypair, NoKey when null
    ethSessionKey,  \* state: ETH private key, NoKey when null
    nextKey,        \* keys generated so far (the next fresh key)
    messages,       \* state: the chat history
    isProcessing,   \* state: a message is being processed
    send,           \* each handleSend invocation's position
    sends,          \* handleSend invocations started so far
    submitted,      \* history: transfers handed to the network, by signer
    reopened        \* history: the session-load effect has run with keys in memory

\* What the conversation leaves behind.
VARIABLES
    finished,       \* history: each finished tool call and the messages it added
    confirmed,      \* the network: the transfers it has confirmed
    reported        \* history: the transfers the chat has shown as successful

chatVars == <<finished, confirmed, reported>>

\* The funding buttons of the agent modal.
VARIABLES
    isFunding,      \* state: a funding is in progress
    fund,           \* handleFundSessionSOL's position
    funding,        \* per chain: the last funding transfer and what became of it
    funds           \* funding handlers started so far

fundVars == <<isFunding, fund, funding, funds>>

modalVars == <<apiKey, isOpen, storedKey, storedEthKey, sessionKey, ethSessionKey,
               nextKey, messages, isProcessing, send, sends, submitted, reopened,
               chatVars, fundVars>>

\* handleRevokeSession of the agent modal.
VARIABLES
    revoke,         \* each handleRevokeSession invocation's position
    revokes,        \* handleRevokeSession invocations started so far
    refunds,        \* history: refund transfers handed to the network
    erased,         \* history: what each finished revoke removed
    congestion,     \* the network: what its fees are above the usual ones
    answers         \* the network: it answers the calls made to it

sessionVars == <<revoke, revokes, refunds, erased, congestion, answers>>

\* The helpers of the core package, called on their own.
VARIABLES
    vault,          \* a key set on its way through storage and back
    fetch,          \* a fetchSessionBalances call
    quote,          \* a JupiterService.getQuote call
    parsed,         \* a conversion of an ETH amount to wei
    refundTx        \* the refund the first modal's revoke computed

\* The ChatWidget of the ai package.
VARIABLES
    controlledIsOpen, \* the isOpen prop: undefined or a boolean
    onToggle,         \* the onToggle prop is provided
    internalIsOpen,   \* the widget's own open state
    shown,            \* the chat window is rendered
    notified,         \* history: the values onToggle was called with
    toggles           \* clicks on the toggle button so far

widgetVars == <<controlledIsOpen, onToggle, internalIsOpen, shown, notified, toggles>>

helperVars == <<vault, fetch, quote, parsed, refundTx, widgetVars>>

\* The useAgent hook of the ai package.
VARIABLES
    agentMessages,  \* useAgent's messages state
    isLoading,      \* useAgent's isLoading state
    agentError,     \* useAgent's error state is set
    held,           \* the messages of the render whose sendMessage the caller holds
    agent,          \* each sendMessage invocation's position
    agentSends      \* sendMessage invocations started so far

agentVars == <<agentMessages, isLoading, agentError, held, agent, agentSends>>

coreVars == <<helperVars, agentVars>>

vars == <<guardVars, modalVars, sessionVars, coreVars>>

\* ------------------------------------------------------ SessionValidator

\* Array.prototype.includes on an array of strings.
includes(list, x) == \E i \in 1..Len(list) : list[i] = x

\* `list && list.length > 0 && !list.includes(toAddress)`
NotInAllowList(opt, toAddress) ==
    \E list \in opt : Len(list) > 0 /\ ~includes(list, toAddress)

\* validateSOL without its per-transaction check.
validateSOL_NoPerTx(cfg, spent, toAddress, amount) ==
    IF NotInAllowList(cfg.allowedMerchantsSOL, toAddress)
        THEN "RecipientNotAllowed"
    ELSE IF spent + amount > cfg.maxSpendSOL
        THEN "SessionLimitExceeded"
    ELSE "Approved"

\* validateSOL with limits that are exclusive ceilings (>= for >).
validateSOL_Exclusive(cfg, spent, toAddress, amount) ==
    IF NotInAllowList(cfg.allowedMerchantsSOL, toAddress)
        THEN "RecipientNotAllowed"
    ELSE IF amount >= cfg.maxPerTxSOL
        THEN "PerTransactionLimitExceeded"
    ELSE IF spent + amount >= cfg.maxSpendSOL
        THEN "SessionLimitExceeded"
    ELSE "Approved"

\* validateSOL with the allow-list looked at after the limits.
validateSOL_LimitsFirst(cfg, spent, toAddress, amount) ==
    IF amount > cfg.maxPerTxSOL
        THEN "PerTransactionLimitExceeded"
    ELSE IF spent + amount > cfg.maxSpendSOL
        THEN "SessionLimitExceeded"
    ELSE IF NotInAllowList(cfg.allowedMerchantsSOL, toAddress)
        THEN "RecipientNotAllowed"
    ELSE "Approved"

\* validateSOL: the error it throws, or "Approved" when it returns.
validateSOL(cfg, spent, toAddress, amount) ==
    IF NotInAllowList(cfg.allowedMerchantsSOL, toAddress)
        THEN "RecipientNotAllowed"
    ELSE IF amount > cfg.maxPerTxSOL
        THEN "PerTransactionLimitExceeded"
    ELSE IF spent + amount > cfg.maxSpendSOL
        THEN "SessionLimitExceeded"
    ELSE "Approved"

\* validateETH with one session total for both chains.
validateETH_SharedTotal(cfg, spent, toAddress, amount) ==
    IF NotInAllowList(cfg.allowedMerchantsETH, toAddress)
        THEN "RecipientNotAllowed"
    ELSE IF amount > cfg.maxPerTxETH
        THEN "PerTransactionLimitExceeded"
    ELSE IF spentSOL + spent + amount > cfg.maxSpendETH
        THEN "SessionLimitExceeded"
    ELSE "Approved"

\* validateETH: the error it throws, or "Approved" when it returns.
validateETH(cfg, spent, toAddress, amount) ==
    IF NotInAllowList(cfg.allowedMerchantsETH, toAddress)
        THEN "RecipientNotAllowed"
    ELSE IF amount > cfg.maxPerTxETH
        THEN "PerTransactionLimitExceeded"
    ELSE IF spent + amount > cfg.maxSpendETH
        THEN "SessionLimitExceeded"
    ELSE "Approved"

\* A validate call that counts the amount it looked at.
validated_Consuming(spent, amount) == spent + amount

\* The running total after validateSOL or validateETH: the two methods read
\* it and have no assignment.
validated(spent, amount) == spent

\* addSpentSOL with `=` for `+=`.
addSpentSOL_Assign(spent, amount) == amount

\* addSpentSOL: this.spentSOL += amount
addSpentSOL(spent, amount) == spent + amount

\* addSpentETH: this.spentETH += amount
addSpentETH(spent, amount) == spent + amount

\* getUsage
getUsage ==
    [spentSOL |-> spentSOL,
     spentETH |-> spentETH,
     remainingSOL |-> config.maxSpendSOL - spentSOL,
     remainingETH |-> config.maxSpendETH - spentETH]

\* --------------------------------------------------------------- callers

IdleTask == [pc |-> "idle", chain |-> "-", to |-> "-", amount |-> 0,
             outcome |-> "-", seen |-> 0]

\* The validator as constructed: `new SessionValidator(config)` stores the
\* configuration it is given and starts both totals at 0.
InitGuard ==
    /\ config \in SessionConfigs
    /\ spentSOL = 0
    /\ spentETH = 0
    /\ task = [t \in Tasks |-> IdleTask]
    /\ calls = 0
    /\ approvedSOL = 0
    /\ approvedETH = 0
    /\ approvals = {}

\* A transfer request as the validator sees it.
Request(chain, toAddress, amount) == [chain |-> chain, to |-> toAddress, amount |-> amount]

Settled(outcome) == IF outcome = "Approved" THEN "approved" ELSE "rejected"

\* A caller runs validateSOL(toAddress, amount); the call returns or throws.
ValidateSOL(t, toAddress, amount) ==
    /\ task[t].pc = "idle"
    /\ \A earlier \in Tasks : earlier < t => task[earlier].pc # "idle"
    /\ calls < MaxCalls
    /\ LET outcome == validateSOL(config, spentSOL, toAddress, amount) IN
        /\ task' = [task EXCEPT ![t] =
                      [pc |-> Settled(outcome), chain |-> "SOL", to |-> toAddress,
                       amount |-> amount, outcome |-> outcome, seen |-> spentSOL]]
        /\ approvedSOL' = IF outcome = "Approved" THEN approvedSOL + amount
                                                  ELSE approvedSOL
        /\ approvals' = IF outcome = "Approved"
                          THEN approvals \cup {Request("SOL", toAddress, amount)}
                          ELSE approvals
    /\ spentSOL' = validated(spentSOL, amount)
    /\ calls' = calls + 1
    /\ UNCHANGED <<modalVars, sessionVars, coreVars, config, spentETH, approvedETH>>

\* A caller runs validateETH(toAddress, amount); the call returns or throws.
ValidateETH(t, toAddress, amount) ==
    /\ task[t].pc = "idle"
    /\ \A earlier \in Tasks : earlier < t => task[earlier].pc # "idle"
    /\ calls < MaxCalls
    /\ LET outcome == validateETH(config, spentETH, toAddress, amount) IN
        /\ task' = [task EXCEPT ![t] =
                      [pc |-> Settled(outcome), chain |-> "ETH", to |-> toAddress,
                       amount |-> amount, outcome |-> outcome, seen |-> spentETH]]
        /\ approvedETH' = IF outcome = "Approved" THEN approvedETH + amount
                                                  ELSE approvedETH
        /\ approvals' = IF outcome = "Approved"
                          THEN approvals \cup {Request("ETH", toAddress, amount)}
                          ELSE approvals
    /\ spentETH' = validated(spentETH, amount)
    /\ calls' = calls + 1
    /\ UNCHANGED <<modalVars, sessionVars, coreVars, config, spentSOL, approvedSOL>>

\* The caller whose request validateSOL let through records it.
AddSpentSOL(t) ==
    /\ task[t].pc = "approved"
    /\ task[t].chain = "SOL"
    /\ spentSOL' = addSpentSOL(spentSOL, task[t].amount)
    /\ task' = [task EXCEPT ![t] = IdleTask]
    /\ UNCHANGED <<modalVars, sessionVars, coreVars, config, spentETH, calls, approvedSOL, approvedETH, approvals>>

\* The caller whose request validateETH let through records it.
AddSpentETH(t) ==
    /\ task[t].pc = "approved"
    /\ task[t].chain = "ETH"
    /\ spentETH' = addSpentETH(spentETH, task[t].amount)
    /\ task' = [task EXCEPT ![t] = IdleTask]
    /\ UNCHANGED <<modalVars, sessionVars, coreVars, config, spentSOL, calls, approvedSOL, approvedETH, approvals>>

\* The caller whose request was rejected has the thrown error and is done.
Rejected(t) ==
    /\ task[t].pc = "rejected"
    /\ task' = [task EXCEPT ![t] = IdleTask]
    /\ UNCHANGED <<modalVars, sessionVars, coreVars, config, spentSOL, spentETH, calls, approvedSOL, approvedETH,
                   approvals>>


\* ----------------------------------------------------------- session keys

\* A key slot: null, a key (one identity per generated key pair), or a string
\* that is no key material.
NoKey == [kind |-> "none", id |-> 0]

Key(n) == [kind |-> "key", id |-> n]

Corrupt == [kind |-> "corrupt", id |-> 0]

\* generateSessionKeys returning a Solana keypair and no Ethereum key.
generateSessionKeys_SolOnly(n) == [solKeypair |-> Key(n), solSecret |-> Key(n), ethKey |-> NoKey]

\* generateSessionKeys returning a secret that is not the keypair's.
generateSessionKeys_OtherSecret(n) == [solKeypair |-> Key(n), solSecret |-> Key(n + 1), ethKey |-> Key(n)]

\* generateSessionKeys: a fresh Solana keypair and a fresh Ethereum key.
generateSessionKeys(n) == [solKeypair |-> Key(n), solSecret |-> Key(n), ethKey |-> Key(n)]

\* JSON.parse(storedKey) followed by restoreSolanaKeypair: the keypair of
\* the stored secret; it throws on anything else.
RestoreThrows(stored) == stored.kind # "key"

\* restoreSolanaKeypair returning a keypair other than the stored one.
restoreSolanaKeypair_Other(stored) == Key(stored.id + 1)

restoreSolanaKeypair(stored) == Key(stored.id)

\* privateKeyToAccount(privateKeyHex) throws on a string that is no key.
PrivateKeyThrows(k) == k.kind # "key"

\* ------------------------------------------------------------ the network

\* Addresses a tool call can carry: a well-formed one and a malformed one.
ToAddresses == {"addrA", "bad"}

\* `new PublicKey(toAddress)` throws on a malformed address; viem's
\* sendTransaction refuses one.
Malformed(toAddress) == toAddress = "bad"

\* Amounts a tool call of the modal can carry, in grid steps: negative, zero,
\* one step and one step above the default per-transaction limit.
ModalAmounts == {-1, 0, 1, 6}

\* Balances the ledger can report, in grid steps.
Balances == {0, 1}

Unknown == [known |-> FALSE, value |-> 0]

Known(b) == [known |-> TRUE, value |-> b]

\* Tool names the model can answer with: the three declared to it and one
\* that has no branch in handleSend.
ToolNames == {"transferSOL", "transferETH", "getBalance", "swapTokens"}

\* What the chat request can come back with.
Responses ==
    {[kind |-> "error", name |-> "-", to |-> "-", amount |-> 0],
     [kind |-> "text", name |-> "-", to |-> "-", amount |-> 0]}
    \cup {[kind |-> "functionCall", name |-> n, to |-> a, amount |-> m] :
            n \in {"transferSOL", "transferETH"}, a \in ToAddresses, m \in ModalAmounts}
    \cup {[kind |-> "functionCall", name |-> n, to |-> "-", amount |-> 0] :
            n \in {"getBalance", "swapTokens"}}

\* The handleSend invocations that can be in flight together.
Sends == {"h1", "h2"}

\* `said` counts the messages the handler has added for its tool call,
\* `funded` keeps the chains whose funding was confirmed when it started and
\* `balance` what transferSOL read before it sent.
IdleSend == [pc |-> "idle", name |-> "-", to |-> "-", amount |-> 0,
             sessionKey |-> NoKey, ethSessionKey |-> NoKey, said |-> 0,
             funded |-> {}, balance |-> Unknown]

Chains == {"SOL", "ETH"}

NoFunding == [status |-> "none", amount |-> 0, told |-> FALSE]

\* The page as loaded: the modal is closed and holds no key; local storage
\* holds what earlier visits left.
InitModal ==
    /\ apiKey \in BOOLEAN
    /\ isOpen = FALSE
    /\ storedKey \in {NoKey, Key(0), Corrupt}
    /\ storedEthKey \in {NoKey, Key(0), Corrupt}
    /\ sessionKey = NoKey
    /\ ethSessionKey = NoKey
    /\ nextKey = 1
    /\ messages = << >>
    /\ isProcessing = FALSE
    /\ send = [p \in Sends |-> IdleSend]
    /\ sends = 0
    /\ submitted = {}
    /\ reopened = FALSE
    /\ finished = {}
    /\ confirmed = {}
    /\ reported = {}
    /\ isFunding = FALSE
    /\ fund = "idle"
    /\ funding = [c \in Chains |-> NoFunding]
    /\ funds = 0

\* The session-load effect, run when isOpen becomes true.  generateNewSession
\* is run when the SOL entry is missing or does not restore; the ETH entry is
\* read after that.
OpenModal ==
    /\ ~isOpen
    /\ reopened' = (reopened \/ sessionKey # NoKey)
    /\ isOpen' = TRUE
    /\ LET generate == storedKey.kind = "none" \/ RestoreThrows(storedKey)
           keys == generateSessionKeys(nextKey)
           ethEntry == IF generate THEN keys.ethKey ELSE storedEthKey
       IN
        /\ sessionKey' = IF generate THEN keys.solKeypair
                                     ELSE restoreSolanaKeypair(storedKey)
        /\ storedKey' = IF generate THEN keys.solSecret ELSE storedKey
        /\ messages' = IF generate THEN <<"Session initialized">> ELSE messages
        /\ IF ethEntry.kind # "none"
             THEN /\ ethSessionKey' = ethEntry
                  /\ storedEthKey' = ethEntry
             ELSE \* the SOL entry restored and the ETH entry is missing
                  /\ ethSessionKey' = keys.ethKey
                  /\ storedEthKey' = keys.ethKey
        /\ nextKey' = IF generate \/ ethEntry.kind = "none" THEN nextKey + 1
                                                            ELSE nextKey
    /\ UNCHANGED <<guardVars, sessionVars, coreVars, fundVars, chatVars, apiKey, isProcessing, send, sends, submitted>>

\* The open modal renders getEthAddress(ethSessionKey); it throws on a string
\* that is no key and the page is gone.
Crashed == isOpen /\ PrivateKeyThrows(ethSessionKey) /\ ethSessionKey.kind # "none"

\* The close button: onClose().
CloseModal ==
    /\ isOpen
    /\ ~Crashed
    /\ isOpen' = FALSE
    /\ UNCHANGED <<guardVars, sessionVars, coreVars, fundVars, chatVars, reopened, apiKey, storedKey, storedEthKey, sessionKey, ethSessionKey, nextKey,
                   messages, isProcessing, send, sends, submitted>>

\* fetchSessionBalances giving up both chains when one read fails.
fetchSessionBalances_AllOrNothing(solKey, ethKey, sol, eth) ==
    IF sol.known /\ eth.known THEN [sol |-> sol, eth |-> eth]
                              ELSE [sol |-> Unknown, eth |-> Unknown]

\* fetchSessionBalances: a chain is read when its key is given, and a read
\* that fails leaves that chain null.
fetchSessionBalances(solKey, ethKey, sol, eth) ==
    [sol |-> IF solKey.kind # "none" THEN sol ELSE Unknown,
     eth |-> IF ethKey.kind # "none" THEN eth ELSE Unknown]

\* The chat message of the getBalance tool.
BalanceReport(bals) ==
    IF bals.sol.known
      THEN (IF bals.eth.known THEN "Current Balance: SOL, ETH"
                              ELSE "Current Balance: SOL, Unknown ETH")
      ELSE (IF bals.eth.known THEN "Current Balance: Unknown SOL, ETH"
                              ELSE "Current Balance: Unknown SOL, Unknown ETH")

\* ------------------------------------------------------------ handleSend

Say(msgs, m) == Append(msgs, m)

\* A transfer handed to the network, signed with `signer`.
Transfer(chain, signer, toAddress, amount) ==
    [chain |-> chain, signer |-> signer, to |-> toAddress, amount |-> amount]

\* The user sends a non-empty input: the user message is shown and the chat
\* request starts.  Without an API key the handler reports it and returns.
\* The handler keeps the keys of the render it was created in.
HandleSend(p) ==
    /\ isOpen
    /\ ~Crashed
    /\ send[p].pc = "idle"
    /\ sends < MaxSends
    /\ sends' = sends + 1
    /\ IF apiKey
         THEN /\ messages' = Say(messages, "user")
              /\ isProcessing' = TRUE
              /\ send' = [send EXCEPT ![p] = [IdleSend EXCEPT !.pc = "chat",
                             !.sessionKey = sessionKey, !.ethSessionKey = ethSessionKey,
                             !.funded = {c \in Chains :
                                           funding[c].status = "confirmed"}]]
         ELSE /\ messages' = Say(Say(messages, "user"), "Error: No API Key configured.")
              /\ isProcessing' = FALSE
              /\ send' = send
    /\ UNCHANGED <<guardVars, sessionVars, coreVars, fundVars, chatVars, reopened, apiKey, isOpen, storedKey, storedEthKey, sessionKey, ethSessionKey,
                   nextKey, submitted>>

\* The handler is over: `finally { setIsProcessing(false) }`.
Finish(p, said) ==
    /\ messages' = said
    /\ isProcessing' = FALSE
    /\ send' = [send EXCEPT ![p] = IdleSend]

\* What a finished tool call leaves in the history: its name and the number
\* of chat messages added for it.
ToolCall(name, said) == [name |-> name, said |-> said]

\* The handler is over after a tool call that added `count` messages, the
\* last of them `last`.
FinishTool(p, name, count, msgs) ==
    /\ Finish(p, msgs)
    /\ finished' = finished \cup {ToolCall(name, count)}

\* The chat request comes back.  A function call of transferSOL or transferETH
\* goes straight to the transfer function of the core package with the
\* arguments of the call; getBalance reads the balances; any other name has no
\* branch: nothing is added to the chat for it.
ChatResponse(p, r) ==
    /\ send[p].pc = "chat"
    /\ LET me == send[p] IN
       CASE r.kind = "error" ->
              /\ Finish(p, Say(messages, "Error"))
              /\ UNCHANGED finished
         [] r.kind = "text" ->
              /\ Finish(p, Say(messages, "text"))
              /\ UNCHANGED finished
         [] r.kind = "functionCall" /\ r.name = "transferSOL" ->
              IF me.sessionKey.kind = "none" \/ Malformed(r.to)
                THEN FinishTool(p, r.name, 2,
                                Say(Say(messages, "Processing SOL transfer"),
                                    "SOL Transfer failed"))
                ELSE /\ messages' = Say(messages, "Processing SOL transfer")
                     /\ send' = [send EXCEPT ![p] = [me EXCEPT !.pc = "solBalance",
                                    !.name = r.name, !.to = r.to, !.amount = r.amount,
                                    !.said = 1]]
                     /\ UNCHANGED <<isProcessing, finished>>
         [] r.kind = "functionCall" /\ r.name = "transferETH" ->
              IF me.ethSessionKey.kind = "none" \/ PrivateKeyThrows(me.ethSessionKey)
                THEN FinishTool(p, r.name, 2,
                                Say(Say(messages, "Processing ETH transfer"),
                                    "ETH Transfer failed"))
                ELSE /\ messages' = Say(messages, "Processing ETH transfer")
                     /\ send' = [send EXCEPT ![p] = [me EXCEPT !.pc = "ethSend",
                                    !.name = r.name, !.to = r.to, !.amount = r.amount,
                                    !.said = 1]]
                     /\ UNCHANGED <<isProcessing, finished>>
         [] r.kind = "functionCall" /\ r.name = "getBalance" ->
              /\ messages' = Say(messages, "Checking balances...")
              /\ send' = [send EXCEPT ![p] = [me EXCEPT !.pc = "getBalance",
                             !.name = r.name, !.said = 1]]
              /\ UNCHANGED <<isProcessing, finished>>
         [] OTHER ->
              FinishTool(p, r.name, 0, messages)
    /\ UNCHANGED <<guardVars, sessionVars, coreVars, fundVars, reopened, apiKey, isOpen, storedKey, storedEthKey, sessionKey, ethSessionKey,
                   nextKey, sends, submitted, confirmed, reported>>

\* transferSOL sending whatever the balance is.
InsufficientFunds_Never(b, amount) == FALSE

\* transferSOL: `if (balance < lamports) throw new Error("Insufficient funds...")`
InsufficientFunds(b, amount) == b.value < amount

\* transferSOL of the core package after its balance read: the read fails, or
\* the balance is below the amount, and it throws; otherwise the transaction
\* is built and handed to sendAndConfirmTransaction.  SystemProgram.transfer
\* encodes the lamports as an unsigned 64-bit number and throws on a negative
\* one; zero lamports are a transfer like any other.
SolBalanceRead(p, b) ==
    /\ send[p].pc = "solBalance"
    /\ LET me == send[p] IN
       IF ~b.known \/ InsufficientFunds(b, me.amount) \/ me.amount < 0
         THEN /\ FinishTool(p, me.name, me.said + 1,
                             Say(messages, "SOL Transfer failed"))
              /\ UNCHANGED submitted
         ELSE /\ submitted' = submitted \cup
                    {Transfer("SOL", me.sessionKey, me.to, me.amount)}
              /\ send' = [send EXCEPT ![p] = [me EXCEPT !.pc = "solSend",
                                                     !.balance = b]]
              /\ UNCHANGED <<messages, isProcessing, finished>>
    /\ UNCHANGED <<guardVars, sessionVars, coreVars, fundVars, reopened, apiKey, isOpen, storedKey, storedEthKey, sessionKey, ethSessionKey,
                   nextKey, sends, confirmed, reported>>

\* A transfer the chat has shown as successful; `funded` tells whether the
\* funding of its chain was confirmed when the message asking for it was sent.
Shown(me, chain, signer) ==
    [chain |-> chain, signer |-> signer, to |-> me.to, amount |-> me.amount,
     funded |-> chain \in me.funded]

\* sendAndConfirmTransaction returns the signature once the network has
\* confirmed the transaction, or throws.
SolSendDone(p, ok) ==
    /\ send[p].pc = "solSend"
    /\ LET me == send[p] IN
        /\ FinishTool(p, me.name, me.said + 1,
                       Say(messages, IF ok THEN "SOL Transfer successful"
                                           ELSE "SOL Transfer failed"))
        /\ confirmed' = IF ok THEN confirmed \cup
                                     {Transfer("SOL", me.sessionKey, me.to, me.amount)}
                               ELSE confirmed
        /\ reported' = IF ok THEN reported \cup {Shown(me, "SOL", me.sessionKey)}
                              ELSE reported
    /\ UNCHANGED <<guardVars, sessionVars, coreVars, fundVars, reopened, apiKey, isOpen, storedKey, storedEthKey, sessionKey, ethSessionKey,
                   nextKey, sends, submitted>>

\* transferETH of the core package: client.sendTransaction refuses a malformed
\* address and a negative value before anything is sent; otherwise the
\* transaction goes out and the call returns its hash, as soon as the node has
\* taken the transaction, or throws.
EthSendDone(p, ok) ==
    /\ send[p].pc = "ethSend"
    /\ LET me == send[p] IN
       IF Malformed(me.to) \/ me.amount < 0
         THEN /\ FinishTool(p, me.name, me.said + 1,
                             Say(messages, "ETH Transfer failed"))
              /\ UNCHANGED <<submitted, reported>>
         ELSE /\ submitted' = submitted \cup
                    {Transfer("ETH", me.ethSessionKey, me.to, me.amount)}
              /\ FinishTool(p, me.name, me.said + 1,
                             Say(messages, IF ok THEN "ETH Transfer successful"
                                                 ELSE "ETH Transfer failed"))
              /\ reported' = IF ok THEN reported \cup
                                          {Shown(me, "ETH", me.ethSessionKey)}
                                    ELSE reported
    /\ UNCHANGED <<guardVars, sessionVars, coreVars, fundVars, reopened, apiKey, isOpen, storedKey, storedEthKey, sessionKey, ethSessionKey,
                   nextKey, sends, confirmed>>

\* The network includes an ETH transfer it was handed.
EthMined(tx) ==
    /\ tx \in submitted \ confirmed
    /\ tx.chain = "ETH"
    /\ confirmed' = confirmed \cup {tx}
    /\ UNCHANGED <<guardVars, sessionVars, coreVars, fundVars, reopened, apiKey, isOpen, storedKey, storedEthKey, sessionKey, ethSessionKey,
                   nextKey, messages, isProcessing, send, sends, submitted,
                   finished, reported>>

\* The getBalance tool: fetchBalances with the handler's keys, then the
\* balances are reported, "Unknown" for a chain that could not be read.  When
\* getEthAddress throws on the ETH key, the outer catch reports an error.
GetBalanceDone(p, sol, eth) ==
    /\ send[p].pc = "getBalance"
    /\ LET me == send[p] IN
       IF me.ethSessionKey.kind = "corrupt"
         THEN FinishTool(p, me.name, me.said + 1, Say(messages, "Error"))
         ELSE FinishTool(p, me.name, me.said + 1, Say(messages,
                  BalanceReport(fetchSessionBalances(me.sessionKey, me.ethSessionKey,
                                                     sol, eth))))
    /\ UNCHANGED <<guardVars, sessionVars, coreVars, fundVars, reopened, apiKey, isOpen, storedKey, storedEthKey, sessionKey, ethSessionKey,
                   nextKey, sends, submitted, confirmed, reported>>

\* ------------------------------------------------------ funding buttons

\* Amounts the funding inputs can hold, in grid steps: the default
\* per-transaction limit and one step above the default session limit.
FundAmounts == {5, 11}

Requested(amount) == [status |-> "requested", amount |-> amount, told |-> FALSE]

\* What the funding handlers leave alone.
pageVars == <<apiKey, isOpen, storedKey, storedEthKey, sessionKey, ethSessionKey,
              nextKey, isProcessing, send, sends, submitted, reopened>>

\* The Fund button of the SOL row (disabled while isFunding): without a
\* session key the handler returns; otherwise the transaction is built and
\* handed to the user's wallet.
HandleFundSessionSOL(amount) ==
    /\ isOpen
    /\ ~Crashed
    /\ ~isFunding
    /\ sessionKey.kind # "none"
    /\ funds < MaxFunds
    /\ funds' = funds + 1
    /\ isFunding' = TRUE
    /\ fund' = "solSend"
    /\ funding' = [funding EXCEPT !["SOL"] = Requested(amount)]
    /\ UNCHANGED <<guardVars, sessionVars, coreVars, chatVars, pageVars, messages>>

\* The handler is over: `finally { setIsFunding(false) }`.
FundOver ==
    /\ isFunding' = FALSE
    /\ fund' = "idle"

\* sendSolTransaction returns the signature, or the wallet refuses and it
\* throws.
FundSolSent(ok) ==
    /\ fund = "solSend"
    /\ IF ok
         THEN /\ funding' = [funding EXCEPT !["SOL"].status = "sent"]
              /\ fund' = "solConfirm"
              /\ UNCHANGED isFunding
         ELSE /\ funding' = [funding EXCEPT !["SOL"].status = "failed"]
              /\ FundOver
    /\ UNCHANGED <<guardVars, sessionVars, coreVars, chatVars, pageVars, messages, funds>>

\* getLatestBlockhash and confirmTransaction come back: the transaction is
\* confirmed, or one of the two calls throws and nothing is said.
FundSolConfirmed(ok) ==
    /\ fund = "solConfirm"
    /\ IF ok
         THEN /\ funding' = [funding EXCEPT !["SOL"].status = "confirmed"]
              /\ fund' = "solBalances"
              /\ UNCHANGED isFunding
         ELSE /\ FundOver
              /\ UNCHANGED funding
    /\ UNCHANGED <<guardVars, sessionVars, coreVars, chatVars, pageVars, messages, funds>>

\* fetchBalances comes back and the funding is reported.
FundSolDone ==
    /\ fund = "solBalances"
    /\ messages' = Say(messages, "Received SOL.")
    /\ funding' = [funding EXCEPT !["SOL"].told = TRUE]
    /\ FundOver
    /\ UNCHANGED <<guardVars, sessionVars, coreVars, chatVars, pageVars, funds>>

\* The Fund button of the ETH row, with the wallet connected to Sepolia:
\* sendEthTransaction hands the request to the wallet and returns at once, so
\* that setIsFunding(true) and the setIsFunding(false) of `finally` happen in
\* the same run of the handler.
HandleFundSessionETH(amount) ==
    /\ isOpen
    /\ ~Crashed
    /\ ~isFunding
    /\ ethSessionKey.kind # "none"
    /\ funds < MaxFunds
    /\ funds' = funds + 1
    /\ funding' = [funding EXCEPT !["ETH"] = Requested(amount)]
    /\ UNCHANGED <<guardVars, sessionVars, coreVars, chatVars, pageVars, messages,
                   isFunding, fund>>

\* onSuccess of sendEthTransaction: the wallet has sent the transaction.
FundEthSuccess ==
    /\ funding["ETH"].status = "requested"
    /\ funding' = [funding EXCEPT !["ETH"].status = "sent", !["ETH"].told = TRUE]
    /\ messages' = Say(messages, "Transaction sent for ETH.")
    /\ UNCHANGED <<guardVars, sessionVars, coreVars, chatVars, pageVars, isFunding,
                   fund, funds>>

\* The user refuses the request in the wallet; no callback is registered for
\* that.
FundEthRefused ==
    /\ funding["ETH"].status = "requested"
    /\ funding' = [funding EXCEPT !["ETH"].status = "failed"]
    /\ UNCHANGED <<guardVars, sessionVars, coreVars, chatVars, pageVars, messages,
                   isFunding, fund, funds>>

\* The network includes the ETH funding it was sent.
FundEthMined ==
    /\ funding["ETH"].status = "sent"
    /\ funding' = [funding EXCEPT !["ETH"].status = "confirmed"]
    /\ UNCHANGED <<guardVars, sessionVars, coreVars, chatVars, pageVars, messages,
                   isFunding, fund, funds>>

NextFunding ==
    \/ \E amount \in FundAmounts : HandleFundSessionSOL(amount)
    \/ \E ok \in BOOLEAN : FundSolSent(ok)
    \/ \E ok \in BOOLEAN : FundSolConfirmed(ok)
    \/ FundSolDone
    \/ \E amount \in FundAmounts : HandleFundSessionETH(amount)
    \/ FundEthSuccess
    \/ FundEthRefused
    \/ FundEthMined

Reads == {Unknown} \cup {Known(b) : b \in Balances}

\* ---------------------------------------------------- handleRevokeSession

\* Residual balances are counted in millionths of a coin.
\* `const fee = 0.000005`: the SOL kept back for the refund's own fee.
fee == 5

\* `const costConfig = 0.0001`: the ETH kept back for the refund's own fee.
costConfig == 100

\* How far network fees can be above the usual ones.
Congestions == {0, 1}

\* The fee the network asks for a refund transaction on a chain: the usual
\* one and what congestion adds.
FeeRate(chain, level) == (IF chain = "SOL" THEN fee ELSE costConfig) + level

\* Residual balances a session address can hold: nothing, exactly the amount
\* kept back, and more than it.
Residuals(buffer) == {0, buffer, buffer + 1}

ResidualReads(buffer) == {Unknown} \cup {Known(b) : b \in Residuals(buffer)}

\* The handleRevokeSession invocations that can be in flight together.
Revokes == {1, 2}

IdleRevoke == [pc |-> "idle", n |-> 0, sessionKey |-> NoKey, ethSessionKey |-> NoKey,
               ethWallet |-> FALSE, solRead |-> "unread", ethRead |-> "unread",
               amount |-> 0]

\* `balObj.sol || 0` and `parseFloat(balObj.eth || "0")`.
OrZero(b) == IF b.known THEN b.value ELSE 0

ReadStatus(b) == IF b.known THEN "known" ELSE "unknown"

\* localStorage.removeItem / setSessionKey(null).
erase_Keep(k) == k

erase(k) == NoKey

\* A refund transfer handed to the network by invocation n of revoke, and
\* the amount it kept back from the balance.
Refund(n, chain, signer, buffer) ==
    [n |-> n, chain |-> chain, signer |-> signer, buffer |-> buffer]

\* A finished revoke removed the key of a chain; `read` is what its balance
\* read of that chain had come back with.
Erasure(chain, read) == [chain |-> chain, read |-> read]

\* The ETH block of handleRevokeSession is entered with an ETH key and a
\* connected wallet; getEthAddress throws on a string that is no key, which
\* the block catches.
EntersEth(me) ==
    /\ me.ethSessionKey.kind # "none"
    /\ me.ethWallet
    /\ ~PrivateKeyThrows(me.ethSessionKey)

\* The end of handleRevokeSession: both entries leave local storage, the state
\* is cleared and the modal is closed.
RevokeDone(q, me) ==
    /\ storedKey' = erase(storedKey)
    /\ storedEthKey' = erase(storedEthKey)
    /\ sessionKey' = erase(sessionKey)
    /\ ethSessionKey' = erase(ethSessionKey)
    /\ messages' = << >>
    /\ isOpen' = FALSE
    /\ erased' = erased \cup {Erasure("SOL", me.solRead), Erasure("ETH", me.ethRead)}
    /\ revoke' = [revoke EXCEPT ![q] = IdleRevoke]

\* The SOL block is over, by its end or by its catch: the ETH block follows.
AfterSol(q, me, said) ==
    IF EntersEth(me)
      THEN /\ revoke' = [revoke EXCEPT ![q] = [me EXCEPT !.pc = "ethBalance"]]
           /\ messages' = said
           /\ UNCHANGED <<storedKey, storedEthKey, sessionKey, ethSessionKey, isOpen,
                          erased>>
      ELSE RevokeDone(q, me)

\* The Revoke button, confirmed.  The handler keeps the keys and the wallet
\* connections of the render it was created in; it runs in the first free
\* slot.
HandleRevokeSession(q, solWallet, ethWallet) ==
    /\ isOpen
    /\ ~Crashed
    /\ revoke[q].pc = "idle"
    /\ \A earlier \in Revokes : earlier < q => revoke[earlier].pc # "idle"
    /\ revokes < MaxRevokes
    /\ revokes' = revokes + 1
    /\ LET me == [IdleRevoke EXCEPT !.n = revokes + 1, !.sessionKey = sessionKey,
                     !.ethSessionKey = ethSessionKey, !.ethWallet = ethWallet]
       IN IF sessionKey.kind # "none" /\ solWallet
            THEN /\ revoke' = [revoke EXCEPT ![q] = [me EXCEPT !.pc = "solBalance"]]
                 /\ UNCHANGED <<storedKey, storedEthKey, sessionKey, ethSessionKey,
                                isOpen, messages, erased>>
            ELSE AfterSol(q, me, messages)
    /\ UNCHANGED <<guardVars, coreVars, chatVars, fundVars, answers, apiKey, nextKey, isProcessing, send, sends,
                   submitted, reopened, congestion, refunds>>

\* fetchSessionBalances(connection, sessionKey.publicKey, null) comes back.
\* With more than the fee the refund starts: transferSOL is called.
RevokeSolBalance(q, b) ==
    /\ revoke[q].pc = "solBalance"
    /\ LET me == [revoke[q] EXCEPT !.solRead = ReadStatus(b)]
           currentSol == OrZero(fetchSessionBalances(me.sessionKey, NoKey, b, Unknown).sol)
       IN IF currentSol > fee
            THEN /\ revoke' = [revoke EXCEPT ![q] = [me EXCEPT !.pc = "solRefund",
                                                       !.amount = currentSol - fee]]
                 /\ messages' = Say(messages, "Refunding SOL...")
                 /\ UNCHANGED <<storedKey, storedEthKey, sessionKey, ethSessionKey,
                                isOpen, erased>>
            ELSE AfterSol(q, me, messages)
    /\ UNCHANGED <<guardVars, coreVars, chatVars, fundVars, answers, apiKey, nextKey, isProcessing, send, sends,
                   submitted, reopened, congestion, revokes, refunds>>

\* transferSOL of the refund, from its balance read to its end: it throws when
\* the read fails and when the balance is below the amount; otherwise the
\* transaction is handed to sendAndConfirmTransaction, which returns the
\* signature or throws.  The signature is logged, a throw is logged.
RevokeSolRefund(q, b, ok) ==
    /\ revoke[q].pc = "solRefund"
    /\ LET me == revoke[q] IN
        /\ refunds' = IF ~b.known \/ InsufficientFunds(b, me.amount)
                        THEN refunds
                        ELSE refunds \cup {Refund(me.n, "SOL", me.sessionKey, fee)}
        /\ AfterSol(q, me, messages)
    /\ UNCHANGED <<guardVars, coreVars, chatVars, fundVars, answers, apiKey, nextKey, isProcessing, send, sends,
                   submitted, reopened, congestion, revokes>>

\* fetchSessionBalances(connection, null, getEthAddress(ethSessionKey)) comes
\* back.  With more than costConfig the refund starts.
RevokeEthBalance(q, b) ==
    /\ revoke[q].pc = "ethBalance"
    /\ LET me == [revoke[q] EXCEPT !.ethRead = ReadStatus(b)]
           currentEth == OrZero(fetchSessionBalances(NoKey, me.ethSessionKey, Unknown, b).eth)
       IN IF currentEth > costConfig
            THEN /\ revoke' = [revoke EXCEPT ![q] = [me EXCEPT !.pc = "ethSend",
                                                       !.amount = currentEth - costConfig]]
                 /\ messages' = Say(messages, "Refunding ETH...")
                 /\ UNCHANGED <<storedKey, storedEthKey, sessionKey, ethSessionKey,
                                isOpen, erased>>
            ELSE RevokeDone(q, me)
    /\ UNCHANGED <<guardVars, coreVars, chatVars, fundVars, answers, apiKey, nextKey, isProcessing, send, sends,
                   submitted, reopened, congestion, revokes, refunds>>

\* transferETH of the refund: the transaction goes out (`sent`) and the hash
\* is logged, or the call throws before that and the error is logged.
RevokeEthSent(q, sent) ==
    /\ revoke[q].pc = "ethSend"
    /\ LET me == revoke[q] IN
        /\ refunds' = IF sent
                        THEN refunds \cup {Refund(me.n, "ETH", me.ethSessionKey, costConfig)}
                        ELSE refunds
        /\ RevokeDone(q, me)
    /\ UNCHANGED <<guardVars, coreVars, chatVars, fundVars, answers, apiKey, nextKey, isProcessing, send, sends,
                   submitted, reopened, congestion, revokes>>

\* The fees of the network move.
FeesChange(level) ==
    /\ congestion # level
    /\ congestion' = level
    /\ UNCHANGED <<guardVars, modalVars, coreVars, revoke, revokes, refunds, erased, answers>>

InitSession ==
    /\ answers = TRUE
    /\ revoke = [q \in Revokes |-> IdleRevoke]
    /\ revokes = 0
    /\ refunds = {}
    /\ erased = {}

NextRevoke ==
    \/ \E q \in Revokes, sw \in BOOLEAN, ew \in BOOLEAN : HandleRevokeSession(q, sw, ew)
    \/ \E q \in Revokes, b \in ResidualReads(fee) : RevokeSolBalance(q, b)
    \/ \E q \in Revokes, b \in ResidualReads(fee), ok \in BOOLEAN :
          RevokeSolRefund(q, b, ok)
    \/ \E q \in Revokes, b \in ResidualReads(costConfig) : RevokeEthBalance(q, b)
    \/ \E q \in Revokes, sent \in BOOLEAN : RevokeEthSent(q, sent)
    \/ \E level \in Congestions : FeesChange(level)

\* ------------------------------------------- helpers of the core package

\* Bytes of a Solana seed in one key pair (32 in the library).
SeedLen == 2

\* Byte values a seed is drawn from: one, two and three decimal digits.
Bytes == {0, 7, 10, 255}

Seeds == [1..SeedLen -> Bytes]

\* Ethereum private keys generatePrivateKey can return.
EthKeys == {"0xa1", "0xb2"}

\* The public key of a seed: a fixed one-to-one function of its bytes (the
\* curve multiplication of the library).
publicOf(seed) == [i \in 1..Len(seed) |-> (seed[i] * 7 + 3) % 256]

\* Keypair.generate(): the secret key is the seed followed by its public key.
KeypairGenerate(seed) == [secretKey |-> seed \o publicOf(seed), publicKey |-> publicOf(seed)]

\* Array.from(solKeypair.secretKey): the bytes as numbers.
ArrayFrom(bytes) == [i \in 1..Len(bytes) |-> bytes[i]]

DigitChars == <<"0", "1", "2", "3", "4", "5", "6", "7", "8", "9">>

RECURSIVE ToDecimal(_)
\* The decimal digits of a number, as JSON.stringify writes it.
ToDecimal(n) ==
    IF n < 10 THEN <<DigitChars[n + 1]>>
              ELSE ToDecimal(n \div 10) \o <<DigitChars[(n % 10) + 1]>>

RECURSIVE Joined(_, _)
Joined(numbers, separator) ==
    IF numbers = << >> THEN << >>
    ELSE IF Len(numbers) = 1 THEN ToDecimal(numbers[1])
    ELSE ToDecimal(numbers[1]) \o separator \o Joined(Tail(numbers), separator)

\* JSON.stringify(number[]) writing the numbers with nothing between them.
JSONstringify_Unseparated(numbers) == <<"[">> \o Joined(numbers, << >>) \o <<"]">>

\* JSON.stringify(number[]): "[n1,n2,...]", as a sequence of characters.
JSONstringify(numbers) == <<"[">> \o Joined(numbers, <<",">>) \o <<"]">>

DigitValue(c) == CHOOSE d \in 0..9 : DigitChars[d + 1] = c

IsDigit(c) == \E d \in 0..9 : DigitChars[d + 1] = c

Thrown == [ok |-> FALSE, value |-> << >>]

Returned(v) == [ok |-> TRUE, value |-> v]

RECURSIVE ParseNumbers(_, _, _, _)
\* The numbers of "n1,n2,...]": `current` is the number being read, `some`
\* says a digit of it has been read, `done` are the numbers before it.
ParseNumbers(text, current, some, done) ==
    IF text = << >> THEN Thrown
    ELSE LET c == Head(text) IN
         IF IsDigit(c)
           THEN ParseNumbers(Tail(text), current * 10 + DigitValue(c), TRUE, done)
         ELSE IF c = "," /\ some
           THEN ParseNumbers(Tail(text), 0, FALSE, Append(done, current))
         ELSE IF c = "]" /\ Tail(text) = << >> /\ (some \/ done = << >>)
           THEN Returned(IF some THEN Append(done, current) ELSE done)
         ELSE Thrown

\* JSON.parse of a stored entry: the number array it spells, or a throw.
JSONparse(text) ==
    IF text # << >> /\ Head(text) = "[" THEN ParseNumbers(Tail(text), 0, FALSE, << >>)
                                        ELSE Thrown

\* Uint8Array.from(number[]): every number modulo 256.
Uint8ArrayFrom(numbers) == [i \in 1..Len(numbers) |-> numbers[i] % 256]

\* Keypair.fromSecretKey: throws on a secret key of the wrong size and on one
\* whose second half is not the public key of its first half.
KeypairFromSecretKey(bytes) ==
    IF Len(bytes) # 2 * SeedLen THEN Thrown
    ELSE LET seed == SubSeq(bytes, 1, SeedLen) IN
         IF SubSeq(bytes, SeedLen + 1, 2 * SeedLen) # publicOf(seed) THEN Thrown
         ELSE Returned([secretKey |-> bytes, publicKey |-> publicOf(seed)])

RECURSIVE ValueOf(_)
\* The bytes as one number, most significant byte first.
ValueOf(bytes) ==
    IF bytes = << >> THEN 0
    ELSE ValueOf(SubSeq(bytes, 1, Len(bytes) - 1)) * 256 + bytes[Len(bytes)]

RECURSIVE Base58Digits(_)
Base58Digits(n) == IF n = 0 THEN << >> ELSE Base58Digits(n \div 58) \o <<n % 58>>

RECURSIVE LeadingZeros(_)
LeadingZeros(bytes) ==
    IF bytes = << >> \/ Head(bytes) # 0 THEN << >>
    ELSE <<0>> \o LeadingZeros(Tail(bytes))

\* publicKey.toBase58(): one leading digit 0 per leading zero byte, then the
\* base 58 digits of the bytes' value; digits stand for their letters.
toBase58(bytes) == LeadingZeros(bytes) \o Base58Digits(ValueOf(bytes))

\* privateKeyToAccount(privateKey).address: a fixed function of the key.
getEthAddress(privateKey) == <<"address of", privateKey>>

\* restoreSolanaKeypair(secretKey) on the numbers of a stored entry.
RestoredKeypair(secretKey) == KeypairFromSecretKey(Uint8ArrayFrom(secretKey))

\* generateSessionKeys() with the randomness of the two generators given.
SessionKeys(seed, ethKey) ==
    LET solKeypair == KeypairGenerate(seed) IN
    [solKeypair |-> solKeypair,
     solAddress |-> toBase58(solKeypair.publicKey),
     solSecret |-> ArrayFrom(solKeypair.secretKey),
     ethKey |-> ethKey,
     ethAddress |-> getEthAddress(ethKey)]

NoSessionKeys == SessionKeys([i \in 1..SeedLen |-> 0], "")

IdleVault == [pc |-> "idle", keys |-> NoSessionKeys, storedKey |-> << >>,
              storedEthKey |-> "", threw |-> FALSE, solAddress |-> << >>,
              ethAddress |-> getEthAddress("")]

IdleFetch == [pc |-> "idle", solKey |-> NoKey, ethKey |-> NoKey, sol |-> Unknown,
              eth |-> Unknown, result |-> [sol |-> Unknown, eth |-> Unknown]]

\* ------------------------------------------------------------- getQuote

\* Price impacts are counted in hundredths of a percent.  The default of
\* maxPriceImpactPct is 2.0.
DefaultMaxPriceImpactPct == 200

\* The limits a caller can pass: the default and a stricter one.
MaxImpacts == {DefaultMaxPriceImpactPct, 100}

\* The price impacts a route can have.
Impacts == {0, 5, 100, 199, 200, 201, 1000}

TwoDigits(n) == <<DigitChars[(n \div 10) + 1], DigitChars[(n % 10) + 1]>>

\* The text the quote service writes for a price impact: "2.01".
PercentText(h) == ToDecimal(h \div 100) \o <<".">> \o TwoDigits(h % 100)

\* The quotes the service can answer with: one per price impact, and quotes
\* whose priceImpactPct is no number.
Quotes ==
    {[known |-> TRUE, impact |-> h, priceImpactPct |-> PercentText(h)] : h \in Impacts}
    \cup {[known |-> FALSE, impact |-> 0, priceImpactPct |-> text] :
             text \in {<< >>, <<"N", "a", "N">>}}

RECURSIVE DigitsOf(_)
\* The longest prefix of a text that is made of digits.
DigitsOf(text) ==
    IF text = << >> \/ ~IsDigit(Head(text)) THEN << >>
    ELSE <<Head(text)>> \o DigitsOf(Tail(text))

RECURSIVE NumberOf(_)
\* The number a sequence of digits spells; 0 for none.
NumberOf(digits) ==
    IF digits = << >> THEN 0
    ELSE NumberOf(SubSeq(digits, 1, Len(digits) - 1)) * 10
            + DigitValue(digits[Len(digits)])

NaN == [nan |-> TRUE, value |-> 0]

\* parseFloat(text), in hundredths: the number spelled by the longest prefix
\* of the text that is a decimal number, NaN when there is none.  The texts
\* of the model have at most two decimals.
parseFloat(text) ==
    LET whole == DigitsOf(text)
        rest == SubSeq(text, Len(whole) + 1, Len(text))
        fraction == IF rest # << >> /\ Head(rest) = "." THEN DigitsOf(Tail(rest))
                                                         ELSE << >>
    IN IF whole = << >> /\ fraction = << >> THEN NaN
       ELSE [nan |-> FALSE,
             value |-> NumberOf(whole) * 100
                         + NumberOf(SubSeq(fraction \o <<"0", "0">>, 1, 2))]

\* What the quote request can come back with: fetch rejects, the service
\* answers with an error status, or it answers with a quote.
QuoteResponses == {"unreachable", "notOk", "ok"}

QuoteThrown == [threw |-> TRUE, quote |-> [known |-> FALSE, impact |-> 0,
                                           priceImpactPct |-> << >>]]

\* getQuote returning every quote of an OK response.
getQuote_Unguarded(response, offered, maxPriceImpactPct) ==
    IF response # "ok" THEN QuoteThrown
                       ELSE [threw |-> FALSE, quote |-> offered]

\* JupiterService.getQuote: it throws when the request fails, when the
\* response is not OK and when the price impact of the quote is above
\* maxPriceImpactPct; otherwise it returns the quote.  A comparison with NaN
\* is false.
getQuote(response, offered, maxPriceImpactPct) ==
    IF response # "ok" THEN QuoteThrown
    ELSE LET impact == parseFloat(offered.priceImpactPct) IN
         IF ~impact.nan /\ impact.value > maxPriceImpactPct
           THEN QuoteThrown
           ELSE [threw |-> FALSE, quote |-> offered]

IdleQuote == [pc |-> "idle", response |-> "ok", offered |-> QuoteThrown.quote,
              max |-> DefaultMaxPriceImpactPct, result |-> QuoteThrown]

\* ----------------------------------------------------------- parseEther

\* Decimal places of one ETH in wei: 18 in viem, fewer here so that the wei
\* amounts stay small.
EtherPlaces == 3

\* Number.prototype.toString writes a number below 10^-ExponentFrom in
\* exponent notation: 6 in JavaScript, a third of the places of wei, and kept
\* at a third of them here.
ExponentFrom == 1

\* A JavaScript number is known by the shortest decimal text that reads back
\* as it: digits not ending in 0, and the number of places they are shifted
\* to the right of the point.
Mantissas == {1, 5, 15, 1234, 1235}

MaxPlaces == 8

EthAmounts == {[digits |-> m, places |-> k] : m \in Mantissas, k \in 0..MaxPlaces}

RECURSIVE Zeros(_)
Zeros(n) == IF n <= 0 THEN << >> ELSE <<"0">> \o Zeros(n - 1)

RECURSIVE Pow10(_)
Pow10(n) == IF n <= 0 THEN 1 ELSE 10 * Pow10(n - 1)

\* Number.prototype.toString of a positive number: with s its digits and n the
\* position of the point after the first digit of s, plain notation when
\* n > -ExponentFrom and exponent notation ("1.5e-7") below that.
NumberToString(a) ==
    LET s == ToDecimal(a.digits)
        n == Len(s) - a.places
    IN IF n <= -ExponentFrom
         THEN <<Head(s)>> \o (IF Len(s) > 1 THEN <<".">> \o Tail(s) ELSE << >>)
                \o <<"e", "-">> \o ToDecimal(1 - n)
       ELSE IF n <= 0 THEN <<"0", ".">> \o Zeros(-n) \o s
       ELSE IF n < Len(s) THEN SubSeq(s, 1, n) \o <<".">> \o SubSeq(s, n + 1, Len(s))
       ELSE s

RECURSIVE StripZeros(_)
\* fraction.replace(/(0+)$/, '')
StripZeros(digits) ==
    IF digits # << >> /\ digits[Len(digits)] = "0"
      THEN StripZeros(SubSeq(digits, 1, Len(digits) - 1))
      ELSE digits

WeiThrown == [ok |-> FALSE, value |-> 0]

\* viem's parseUnits(text, decimals): a text that is not digits, an optional
\* point and digits throws; a fraction longer than `decimals` is rounded to
\* `decimals` places, half up; a shorter one is padded with zeros.
parseUnits(text, decimals) ==
    LET whole == DigitsOf(text)
        rest == SubSeq(text, Len(whole) + 1, Len(text))
        point == rest # << >> /\ Head(rest) = "."
        digits == IF point THEN DigitsOf(Tail(rest)) ELSE << >>
        fraction == StripZeros(digits)
    IN IF Len(whole) + (IF point THEN 1 ELSE 0) + Len(digits) # Len(text)
         THEN WeiThrown
       ELSE IF Len(fraction) > decimals
         THEN [ok |-> TRUE,
               value |-> NumberOf(whole) * Pow10(decimals)
                           + NumberOf(SubSeq(fraction, 1, decimals))
                           + (IF DigitValue(fraction[decimals + 1]) >= 5 THEN 1 ELSE 0)]
       ELSE [ok |-> TRUE,
             value |-> NumberOf(whole) * Pow10(decimals)
                         + NumberOf(fraction) * Pow10(decimals - Len(fraction))]

\* transferETH's `parseEther(amount.toString())`.
parseEther(amount) == parseUnits(NumberToString(amount), EtherPlaces)

IdleParsed == [pc |-> "idle", amount |-> [digits |-> 1, places |-> 0],
               text |-> << >>, result |-> WeiThrown]

\* --------------------------------------------- useAgent (ai package)

\* sendMessage invocations in one run.
MaxAgentSends == 2

AgentCalls == 1..MaxAgentSends

\* The tools options.handlers has a function for; the model may call
\* others.
Handlers == {"getBalance"}

\* `Executing ${toolCall.name}...`
ExecutingText(name) == "Executing " \o name \o "..."

\* `Error: No handler for tool ${toolCall.name}`
NoHandler(name) == "Error: No handler for tool " \o name

\* `Tool Result (${toolCall.name}): ...` and `Tool Error: ...`
ToolResult(name, ok) == IF ok THEN "Tool Result (" \o name \o ")" ELSE "Tool Error"

\* A chat message {role, content}.  `origin` is no field of the code's
\* message: it records which statement of sendMessage added it.
Msg(role, content, origin) == [role |-> role, content |-> content, origin |-> origin]

\* What the caller may pass to sendMessage: any text, the text of a
\* placeholder included.
UserTexts == {"hi", ExecutingText("getBalance")}

\* What client.chat resolves to.
ToolCallLists == {<< >>, <<"getBalance">>, <<"swapTokens">>,
                  <<"swapTokens", "getBalance">>,
                  <<"getBalance", "getBalance">>}

AgentResponses == [content : {"ok"}, toolCalls : ToolCallLists]

IdleAgent == [pc |-> "idle", toolCalls |-> << >>]

InitAgent ==
    /\ agentMessages = << >>
    /\ isLoading = FALSE
    /\ agentError = FALSE
    /\ held = << >>
    /\ agent = [c \in AgentCalls |-> IdleAgent]
    /\ agentSends = 0

\* The loop over response.toolCalls up to its next await: a tool without a
\* handler adds its error and the loop goes on; a tool with a handler adds the
\* placeholder and the handler is awaited.
RECURSIVE ForToolCalls(_, _)
ForToolCalls(msgs, toolCalls) ==
    IF toolCalls = << >>
      THEN [messages |-> msgs, toolCalls |-> << >>]
      ELSE LET name == Head(toolCalls) IN
           IF name \notin Handlers
             THEN ForToolCalls(Append(msgs, Msg("assistant", NoHandler(name), "error")),
                               Tail(toolCalls))
             ELSE [messages |-> Append(msgs, Msg("assistant", ExecutingText(name),
                                                 "placeholder")),
                   toolCalls |-> toolCalls]

\* sendMessage goes on with the tool calls left, to its next await or to its
\* end (`finally { setIsLoading(false) }`).
Continue(c, msgs, toolCalls) ==
    LET next == ForToolCalls(msgs, toolCalls) IN
    /\ agentMessages' = next.messages
    /\ IF next.toolCalls = << >>
         THEN /\ agent' = [agent EXCEPT ![c] = IdleAgent]
              /\ isLoading' = FALSE
         ELSE /\ agent' = [agent EXCEPT ![c] = [pc |-> "tool",
                                                toolCalls |-> next.toolCalls]]
              /\ UNCHANGED isLoading

\* prev.filter(m => m.content !== `Executing ${toolCall.name}...`)
Filtered(msgs, name) == SelectSeq(msgs, LAMBDA m : m.content # ExecutingText(name))

\* sendMessage(content): the user message is appended to the messages of the
\* render the callback belongs to, and client.chat is awaited.
SendMessage(c, content) ==
    /\ agent[c].pc = "idle"
    /\ \A earlier \in AgentCalls : earlier < c => agent[earlier].pc # "idle"
    /\ agentSends < MaxAgentSends
    /\ agentSends' = agentSends + 1
    /\ isLoading' = TRUE
    /\ agentError' = FALSE
    /\ agentMessages' = Append(held, Msg("user", content, "user"))
    /\ agent' = [agent EXCEPT ![c] = [pc |-> "chat", toolCalls |-> << >>]]
    /\ UNCHANGED <<guardVars, modalVars, sessionVars, helperVars, held>>

\* The component renders again and the caller has the sendMessage of that
\* render (useCallback with messages among its dependencies).
Rerender ==
    /\ held # agentMessages
    /\ held' = agentMessages
    /\ UNCHANGED <<guardVars, modalVars, sessionVars, helperVars, agentMessages,
                   isLoading, agentError, agent, agentSends>>

\* client.chat resolves: the reply is appended and the tool calls start.
ChatReturns(c, response) ==
    /\ agent[c].pc = "chat"
    /\ Continue(c, Append(agentMessages, Msg("assistant", response.content, "reply")),
                response.toolCalls)
    /\ UNCHANGED <<guardVars, modalVars, sessionVars, helperVars, held, agentError,
                   agentSends>>

\* client.chat rejects: the error is kept and nothing is appended.
ChatThrows(c) ==
    /\ agent[c].pc = "chat"
    /\ agentError' = TRUE
    /\ isLoading' = FALSE
    /\ agent' = [agent EXCEPT ![c] = IdleAgent]
    /\ UNCHANGED <<guardVars, modalVars, sessionVars, helperVars, held, agentMessages,
                   agentSends>>

\* The handler of the tool call resolves or rejects: the placeholder is
\* filtered out, the result or the error is appended, and the loop goes on.
HandlerReturns(c, ok) ==
    /\ agent[c].pc = "tool"
    /\ LET name == Head(agent[c].toolCalls) IN
       Continue(c, Append(Filtered(agentMessages, name),
                          Msg("assistant", ToolResult(name, ok), "result")),
                Tail(agent[c].toolCalls))
    /\ UNCHANGED <<guardVars, modalVars, sessionVars, helperVars, held, agentError,
                   agentSends>>

NextAgent ==
    \/ \E c \in AgentCalls, content \in UserTexts : SendMessage(c, content)
    \/ Rerender
    \/ \E c \in AgentCalls, response \in AgentResponses : ChatReturns(c, response)
    \/ \E c \in AgentCalls : ChatThrows(c)
    \/ \E c \in AgentCalls, ok \in BOOLEAN : HandlerReturns(c, ok)

\* ------------------------------------------- ChatWidget (ai package)

\* Clicks on the toggle button in one run.
MaxToggles == 3

\* The isOpen prop: left out, or a boolean.
NotGiven == [defined |-> FALSE, value |-> FALSE]

Passed(b) == [defined |-> TRUE, value |-> b]

\* What the parent may pass as isOpen.
IsOpenProps == {NotGiven, Passed(TRUE), Passed(FALSE)}

\* isControlled: `controlledIsOpen !== undefined`.
isControlled(prop) == prop.defined

\* The open state ignoring the prop.
widgetIsOpen_Internal(prop, internal) == internal

\* `isControlled ? controlledIsOpen : internalIsOpen`
widgetIsOpen(prop, internal) == IF isControlled(prop) THEN prop.value ELSE internal

\* The widget as mounted without the two props.
InitWidget ==
    /\ controlledIsOpen = NotGiven
    /\ onToggle = FALSE
    /\ internalIsOpen = FALSE
    /\ shown = FALSE
    /\ notified = << >>
    /\ toggles = 0

\* A click on the toggle button (the floating button or the one in the
\* header): toggleOpen, and the render that follows.
ToggleOpen ==
    /\ toggles < MaxToggles
    /\ toggles' = toggles + 1
    /\ LET newState == ~widgetIsOpen(controlledIsOpen, internalIsOpen) IN
       IF isControlled(controlledIsOpen) /\ onToggle
         THEN /\ notified' = Append(notified, newState)
              /\ UNCHANGED internalIsOpen
         ELSE /\ internalIsOpen' = newState
              /\ UNCHANGED notified
    /\ shown' = widgetIsOpen(controlledIsOpen, internalIsOpen')
    /\ UNCHANGED <<guardVars, modalVars, sessionVars, agentVars, vault, fetch, quote,
                   parsed, refundTx, controlledIsOpen, onToggle>>

\* The parent renders the widget with other props.
ParentRenders(prop, handler) ==
    /\ <<prop, handler>> # <<controlledIsOpen, onToggle>>
    /\ controlledIsOpen' = prop
    /\ onToggle' = handler
    /\ shown' = widgetIsOpen(prop, internalIsOpen)
    /\ UNCHANGED <<guardVars, modalVars, sessionVars, agentVars, vault, fetch, quote,
                   parsed, refundTx, internalIsOpen, notified, toggles>>

NextWidget ==
    \/ ToggleOpen
    \/ \E prop \in IsOpenProps, handler \in BOOLEAN : ParentRenders(prop, handler)

\* ---- the refund of the first modal (app/components/AIAgentModal.tsx)

\* The fee kept back from the SOL refund, in lamports.
feeLamports == 5000

\* The gas of a plain ETH transfer.
TransferGas == 21000

\* Gas prices the network reports, in the unit the balances are counted in.
GasPrices == {1, 2, 10}

\* gasPrice * BigInt(21000).
cost(gasPrice) == gasPrice * TransferGas

\* Session balances around the SOL fee.
LamportBalances == {0, feeLamports, feeLamports + 1, 2 * feeLamports}

\* Session balances around the cost of the ETH refund and its tenth.
WeiBalances(gasPrice) ==
    LET c == cost(gasPrice) IN
    {0, c, c + 1, c + (c \div 10), c + (c \div 10) + 1, 2 * c}

NoRefund == [chain |-> "-", attempted |-> FALSE, balance |-> 0, buffer |-> 0,
             value |-> 0]

\* The SOL block: with more than the fee, balanceLamports - fee is sent.
solRefund(balanceLamports) ==
    [chain |-> "SOL", attempted |-> balanceLamports > feeLamports,
     balance |-> balanceLamports, buffer |-> feeLamports,
     value |-> balanceLamports - feeLamports]

\* The ETH block: with more than the cost, the balance less the cost and a
\* tenth of the cost (BigInt division) is sent.
ethRefund(balanceWei, gasPrice) ==
    [chain |-> "ETH", attempted |-> balanceWei > cost(gasPrice),
     balance |-> balanceWei, buffer |-> cost(gasPrice),
     value |-> balanceWei - cost(gasPrice) - (cost(gasPrice) \div 10)]

InitCore ==
    /\ vault = IdleVault
    /\ fetch = IdleFetch
    /\ quote = IdleQuote
    /\ parsed = IdleParsed
    /\ refundTx = NoRefund
    /\ InitAgent
    /\ InitWidget

\* generateSessionKeys().
VaultGenerate(seed, ethKey) ==
    /\ vault.pc = "idle"
    /\ vault' = [vault EXCEPT !.pc = "generated", !.keys = SessionKeys(seed, ethKey)]
    /\ UNCHANGED <<guardVars, modalVars, sessionVars, agentVars, widgetVars, fetch, quote, parsed, refundTx>>

\* generateNewSession: localStorage.setItem of the two secrets.
VaultPersist ==
    /\ vault.pc = "generated"
    /\ vault' = [vault EXCEPT !.pc = "persisted",
                              !.storedKey = JSONstringify(vault.keys.solSecret),
                              !.storedEthKey = vault.keys.ethKey]
    /\ UNCHANGED <<guardVars, modalVars, sessionVars, agentVars, widgetVars, fetch, quote, parsed, refundTx>>

\* The session-load effect on the two entries: JSON.parse and
\* restoreSolanaKeypair for SOL, the string itself for ETH; then the
\* addresses of what was restored.
VaultRestore ==
    /\ vault.pc = "persisted"
    /\ LET secretKey == JSONparse(vault.storedKey)
           keypair == IF secretKey.ok THEN RestoredKeypair(secretKey.value) ELSE Thrown
       IN vault' = [vault EXCEPT !.pc = "restored",
                       !.threw = ~keypair.ok,
                       !.solAddress = IF keypair.ok THEN toBase58(keypair.value.publicKey)
                                                    ELSE << >>,
                       !.ethAddress = getEthAddress(vault.storedEthKey)]
    /\ UNCHANGED <<guardVars, modalVars, sessionVars, agentVars, widgetVars, fetch, quote, parsed, refundTx>>

\* fetchSessionBalances(connection, solPublicKey, ethAddress) from its call
\* to its return: `sol` and `eth` are what the two reads come back with.
FetchSessionBalances(solKey, ethKey, sol, eth) ==
    /\ fetch.pc = "idle"
    /\ fetch' = [pc |-> "returned", solKey |-> solKey, ethKey |-> ethKey,
                 sol |-> sol, eth |-> eth,
                 result |-> fetchSessionBalances(solKey, ethKey, sol, eth)]
    /\ UNCHANGED <<guardVars, modalVars, sessionVars, agentVars, widgetVars, vault, quote, parsed, refundTx>>

\* getQuote from its call to its return or throw.
GetQuote(response, offered, maxPriceImpactPct) ==
    /\ quote.pc = "idle"
    /\ quote' = [pc |-> "done", response |-> response, offered |-> offered,
                 max |-> maxPriceImpactPct,
                 result |-> getQuote(response, offered, maxPriceImpactPct)]
    /\ UNCHANGED <<guardVars, modalVars, sessionVars, agentVars, widgetVars, vault, fetch, parsed, refundTx>>

\* The value of a transferETH call is computed.
ParseEther(amount) ==
    /\ parsed.pc = "idle"
    /\ parsed' = [pc |-> "done", amount |-> amount, text |-> NumberToString(amount),
                  result |-> parseEther(amount)]
    /\ UNCHANGED <<guardVars, modalVars, sessionVars, agentVars, widgetVars, vault, fetch, quote, refundTx>>

\* The first modal's revoke reads the SOL balance of the session.
RefundSOL(balanceLamports) ==
    /\ refundTx = NoRefund
    /\ refundTx' = solRefund(balanceLamports)
    /\ UNCHANGED <<guardVars, modalVars, sessionVars, agentVars, widgetVars, vault, fetch, quote, parsed>>

\* The first modal's revoke reads the ETH balance of the session and the gas
\* price.
RefundETH(balanceWei, gasPrice) ==
    /\ refundTx = NoRefund
    /\ refundTx' = ethRefund(balanceWei, gasPrice)
    /\ UNCHANGED <<guardVars, modalVars, sessionVars, agentVars, widgetVars, vault, fetch, quote, parsed>>

NextTools ==
    \/ \E response \in QuoteResponses, offered \in Quotes, max \in MaxImpacts :
          GetQuote(response, offered, max)
    \/ \E amount \in EthAmounts : ParseEther(amount)
    \/ \E balanceLamports \in LamportBalances : RefundSOL(balanceLamports)
    \/ \E gasPrice \in GasPrices :
          \E balanceWei \in WeiBalances(gasPrice) : RefundETH(balanceWei, gasPrice)

NextCore ==
    \/ \E seed \in Seeds, ethKey \in EthKeys : VaultGenerate(seed, ethKey)
    \/ VaultPersist
    \/ VaultRestore
    \/ \E solKey \in {NoKey, Key(1)}, ethKey \in {NoKey, Key(1)},
          sol \in Reads, eth \in Reads : FetchSessionBalances(solKey, ethKey, sol, eth)

NextModal ==
    \/ OpenModal
    \/ CloseModal
    \/ \E p \in Sends : HandleSend(p)
    \/ \E p \in Sends, r \in Responses : ChatResponse(p, r)
    \/ \E p \in Sends, b \in Reads : SolBalanceRead(p, b)
    \/ \E p \in Sends, ok \in BOOLEAN : SolSendDone(p, ok)
    \/ \E p \in Sends, ok \in BOOLEAN : EthSendDone(p, ok)
    \/ \E tx \in submitted : EthMined(tx)
    \/ \E p \in Sends, sol \in Reads, eth \in Reads : GetBalanceDone(p, sol, eth)

NextGuard ==
    \/ \E t \in Tasks, a \in Recipients, n \in Amounts : ValidateSOL(t, a, n)
    \/ \E t \in Tasks, a \in Recipients, n \in Amounts : ValidateETH(t, a, n)
    \/ \E t \in Tasks : AddSpentSOL(t)
    \/ \E t \in Tasks : AddSpentETH(t)
    \/ \E t \in Tasks : Rejected(t)

\* The validator and its callers; the page of the modal is not in use.
Init ==
    /\ InitGuard
    /\ InitModal
    /\ InitSession
    /\ InitCore
    /\ congestion = 0
    /\ apiKey
    /\ storedKey = NoKey
    /\ storedEthKey = NoKey

Next == NextGuard

Spec == Init /\ [][Next]_vars

\* The validator used by one caller, one call after the other.
NextSerial ==
    \/ \E a \in Recipients, n \in Amounts : ValidateSOL(1, a, n)
    \/ \E a \in Recipients, n \in Amounts : ValidateETH(1, a, n)
    \/ AddSpentSOL(1)
    \/ AddSpentETH(1)
    \/ Rejected(1)

SpecSerial == Init /\ [][NextSerial]_vars

\* The agent modal in conversation; it constructs no validator.
NextUI == NextModal

InitUI ==
    /\ InitModal
    /\ InitGuard
    /\ InitSession
    /\ InitCore
    /\ congestion = 0
    /\ config = DEFAULT_SESSION_CONFIG

SpecModal == InitUI /\ [][NextUI]_vars

\* The session of the agent modal: opened, closed and revoked.
NextLifecycle ==
    \/ OpenModal
    \/ CloseModal
    \/ NextRevoke

InitLifecycle ==
    /\ InitModal
    /\ InitGuard
    /\ InitSession
    /\ InitCore
    /\ congestion \in Congestions
    /\ config = DEFAULT_SESSION_CONFIG
    /\ apiKey

SpecSession == InitLifecycle /\ [][NextLifecycle]_vars

\* The helpers of the core package on their own.
InitHelpers == InitUI /\ apiKey /\ storedKey = NoKey /\ storedEthKey = NoKey

SpecCore == InitHelpers /\ [][NextCore]_vars

\* The quote service and the unit conversion on their own.
SpecTools == InitHelpers /\ [][NextTools]_vars

\* The agent modal funded and then asked to transfer: the funding handlers
\* run before the first message is sent, and the conversation goes on once
\* the wallet has dealt with every funding request.
FundingFirst ==
    /\ sends = 0
    /\ NextFunding

ThenAsked ==
    /\ fund = "idle"
    /\ funding["ETH"].status # "requested"
    /\ \/ \E p \in Sends : HandleSend(p)
       \/ \E p \in Sends, r \in Responses : ChatResponse(p, r)
       \/ \E p \in Sends, b \in Reads : SolBalanceRead(p, b)
       \/ \E p \in Sends, ok \in BOOLEAN : SolSendDone(p, ok)
       \/ \E p \in Sends, ok \in BOOLEAN : EthSendDone(p, ok)

NextFund ==
    \/ OpenModal
    \/ FundingFirst
    \/ ThenAsked

SpecFund == InitHelpers /\ [][NextFund]_vars

\* The network answers one of the calls handleSend is waiting for.
Answers ==
    /\ answers
    /\ \/ \E p \in Sends, r \in Responses : ChatResponse(p, r)
       \/ \E p \in Sends, b \in Reads : SolBalanceRead(p, b)
       \/ \E p \in Sends, ok \in BOOLEAN : SolSendDone(p, ok)
       \/ \E p \in Sends, ok \in BOOLEAN : EthSendDone(p, ok)
       \/ \E p \in Sends, sol \in Reads, eth \in Reads : GetBalanceDone(p, sol, eth)

\* The network stops answering.
NetworkStops ==
    /\ answers
    /\ answers' = FALSE
    /\ UNCHANGED <<guardVars, modalVars, coreVars, revoke, revokes, refunds, erased,
                   congestion>>

\* The conversation on a network that answers every call made to it for as
\* long as it answers at all: handleSend awaits each call without a deadline,
\* so that its next step is the answer.
NextLive ==
    \/ OpenModal
    \/ \E p \in Sends : HandleSend(p)
    \/ Answers
    \/ NetworkStops

SpecLive == InitHelpers /\ [][NextLive]_vars /\ WF_vars(Answers)

\* The conversation next to the Revoke button: a message may be sent and
\* answered while a revoke is running, and after it.
\* The user has sent a message and presses Revoke, once.
RevokePressed ==
    /\ sends > 0
    /\ revokes = 0
    /\ \E q \in Revokes, sw \in BOOLEAN, ew \in BOOLEAN : HandleRevokeSession(q, sw, ew)

NextRace ==
    \/ OpenModal
    \/ \E p \in Sends : HandleSend(p)
    \/ Answers
    \/ RevokePressed
    \/ \E q \in Revokes, b \in ResidualReads(fee) : RevokeSolBalance(q, b)
    \/ \E q \in Revokes, b \in ResidualReads(fee), ok \in BOOLEAN :
          RevokeSolRefund(q, b, ok)
    \/ \E q \in Revokes, b \in ResidualReads(costConfig) : RevokeEthBalance(q, b)
    \/ \E q \in Revokes, sent \in BOOLEAN : RevokeEthSent(q, sent)

SpecRace == InitHelpers /\ [][NextRace]_vars

\* The ChatWidget's open state on its own.
SpecWidget == InitHelpers /\ [][NextWidget]_vars

\* The useAgent hook on its own.
SpecAgent == InitHelpers /\ [][NextAgent]_vars

\* ------------------------------------------------------------------ claims

\* The limits and the allow-list of a chain, as the configuration names them.
MaxSpend(c) == IF c = "SOL" THEN config.maxSpendSOL ELSE config.maxSpendETH

MaxPerTx(c) == IF c = "SOL" THEN config.maxPerTxSOL ELSE config.maxPerTxETH

AllowList(c) == IF c = "SOL" THEN config.allowedMerchantsSOL
                             ELSE config.allowedMerchantsETH

\* A non-empty allow-list is configured for the chain and `a` is not in it.
Excluded(c, a) ==
    \E list \in AllowList(c) :
        /\ Len(list) > 0
        /\ \A i \in 1..Len(list) : list[i] # a

\* The callers whose validate call has returned or thrown.
HasResult(t) == task[t].pc \in {"approved", "rejected"}

\* C1: every transfer that a transferSOL / transferETH tool call hands to the
\* network with the session key was approved by the validator before, as the
\* same (chain, recipient, amount).
C1_SubmittedWasApproved ==
    \A s \in submitted : Request(s.chain, s.to, s.amount) \in approvals

\* C2: on each chain the sum of the amounts the validator approved never
\* exceeds maxSpend of that chain, however the validate and addSpent calls of
\* concurrent callers interleave (stated for the configurations whose
\* per-transaction limit is within the session limit).
C2_ApprovedWithinMaxTotal ==
    /\ config.maxPerTxSOL <= config.maxSpendSOL => approvedSOL <= config.maxSpendSOL
    /\ config.maxPerTxETH <= config.maxSpendETH => approvedETH <= config.maxSpendETH

\* C3: the step in which the validator approves a request of amount a also
\* raises the cumulative spend of that chain by a.
C3_ApproveReserves ==
    [][\A t \in Tasks :
          (task[t].pc = "idle" /\ task'[t].pc = "approved") =>
              IF task'[t].chain = "SOL"
                THEN spentSOL' = spentSOL + task'[t].amount
                ELSE spentETH' = spentETH + task'[t].amount]_vars

\* C4: a request whose amount is above maxPerTx of its chain is rejected,
\* whatever the cumulative spend was when it was made.
C4_OverPerTxRejected ==
    \A t \in Tasks :
        (HasResult(t) /\ task[t].amount > MaxPerTx(task[t].chain))
            => task[t].pc = "rejected"

\* C4 witness: a request above maxPerTx was rejected although the session
\* total had room for it and its recipient was allowed.
C4_Witness ==
    \E t \in Tasks :
        /\ task[t].pc = "rejected"
        /\ task[t].outcome = "PerTransactionLimitExceeded"
        /\ task[t].amount > MaxPerTx(task[t].chain)
        /\ task[t].seen + task[t].amount <= MaxSpend(task[t].chain)

\* C5: the limits are inclusive.  For a request with an allowed recipient:
\* amount = maxPerTx is approved when the total allows it and amount =
\* maxPerTx + 1 is rejected; spent + amount = maxSpend is approved when the
\* amount is within maxPerTx and spent + amount = maxSpend + 1 is rejected.
C5_InclusiveCeilings ==
    \A t \in Tasks :
        (HasResult(t) /\ ~Excluded(task[t].chain, task[t].to)) =>
            LET c == task[t].chain
                a == task[t].amount
                total == task[t].seen + a
            IN  /\ (a = MaxPerTx(c) /\ total <= MaxSpend(c)) => task[t].pc = "approved"
                /\ (a = MaxPerTx(c) + 1) => task[t].pc = "rejected"
                /\ (total = MaxSpend(c) /\ a <= MaxPerTx(c)) => task[t].pc = "approved"
                /\ (total = MaxSpend(c) + 1) => task[t].pc = "rejected"

\* C5 witness: one request at both ceilings (amount = maxPerTx, and the total
\* it makes = maxSpend) was approved while a request one step above maxPerTx
\* was rejected.
C5_Witness ==
    \E t, u \in Tasks :
        /\ task[t].pc = "approved"
        /\ task[t].amount = MaxPerTx(task[t].chain)
        /\ task[t].seen + task[t].amount = MaxSpend(task[t].chain)
        /\ task[t].amount > 0
        /\ task[u].pc = "rejected"
        /\ task[u].amount = MaxPerTx(task[u].chain) + 1

\* No approved request is waiting for its addSpent call.
Recorded == \A t \in Tasks : task[t].pc # "approved"

C7_AllowList ==
    \A t \in Tasks :
        HasResult(t) =>
            /\ Excluded(task[t].chain, task[t].to)
                  => task[t].outcome = "RecipientNotAllowed"
            /\ (\A list \in AllowList(task[t].chain) : Len(list) = 0)
                  => task[t].outcome # "RecipientNotAllowed"

\* C7 witness: a request above the per-transaction limit to a recipient
\* outside the allow-list was rejected with RecipientNotAllowed.
C7_Witness ==
    \E t \in Tasks :
        /\ Excluded(task[t].chain, task[t].to)
        /\ task[t].amount > MaxPerTx(task[t].chain)
        /\ task[t].outcome = "RecipientNotAllowed"

\* C8: no validator exists whose per-transaction limit is above its session
\* limit.
C8_ConfigRejected ==
    /\ config.maxPerTxSOL <= config.maxSpendSOL
    /\ config.maxPerTxETH <= config.maxSpendETH

\* C9: no step lowers the running total of a chain.
C9_SpendMonotonic ==
    [][spentSOL' >= spentSOL /\ spentETH' >= spentETH]_vars

\* C10: a request with a non-positive amount or a malformed recipient is
\* never approved by the validator and never handed to the network.
C10_MalformedNeverProceeds ==
    /\ \A s \in submitted : s.amount > 0 /\ ~Malformed(s.to)
    /\ \A r \in approvals : r.amount > 0

\* -------------------------------------------------- claims on the session

\* C11: for one session at most one refund transaction per chain is ever
\* submitted, however many times revoke is requested: two refunds signed by
\* the same session key on the same chain come from the same revoke.
C11_OneRefundPerSession ==
    \A a \in refunds, b \in refunds :
        (a.chain = b.chain /\ a.signer = b.signer) => a.n = b.n

\* C12: Revoked is terminal: once a revoke has completed, the session is
\* never Active again and holds no usable key, in memory or in storage.
C12_RevokedIsTerminal ==
    erased # {} =>
        /\ sessionKey = NoKey
        /\ ethSessionKey = NoKey
        /\ storedKey = NoKey
        /\ storedEthKey = NoKey

\* The four key slots of a session are all filled or all empty.
Paired ==
    \/ /\ sessionKey # NoKey
       /\ ethSessionKey # NoKey
       /\ storedKey # NoKey
       /\ storedEthKey # NoKey
    \/ /\ sessionKey = NoKey
       /\ ethSessionKey = NoKey
       /\ storedKey = NoKey
       /\ storedEthKey = NoKey

C14_StartIdempotent ==
    [][(~isOpen /\ isOpen' /\ storedKey.kind = "key" /\ storedEthKey.kind = "key") =>
         /\ sessionKey' = Key(storedKey.id)
         /\ ethSessionKey' = storedEthKey
         /\ sessionKey # NoKey => sessionKey' = sessionKey
         /\ ethSessionKey # NoKey => ethSessionKey' = ethSessionKey
         /\ UNCHANGED <<storedKey, storedEthKey, nextKey>>]_vars

\* A generated session after the modal was opened again: still the first
\* generated keys, nothing generated since.
C14_Witness ==
    /\ isOpen
    /\ reopened
    /\ erased = {}
    /\ sessionKey = Key(1)
    /\ ethSessionKey = Key(1)
    /\ storedKey = Key(1)
    /\ nextKey = 2

\* C15: a corrupt persisted secret of either chain never becomes the active
\* key of the session.
C15_CorruptNeverActive ==
    /\ sessionKey.kind # "corrupt"
    /\ ethSessionKey.kind # "corrupt"

\* C16: for every generated key set, persisting its secrets and restoring
\* them does not throw and yields the generated SOL and ETH addresses.
C16_RoundTrip ==
    vault.pc = "restored" =>
        /\ ~vault.threw
        /\ vault.solAddress = vault.keys.solAddress
        /\ vault.ethAddress = vault.keys.ethAddress

\* A restored key set whose secret has a three-digit byte followed by a zero
\* byte.
C16_Witness ==
    /\ vault.pc = "restored"
    /\ vault.keys.solSecret[1] = 255
    /\ vault.keys.solSecret[2] = 0
    /\ vault.solAddress = toBase58(publicOf(<<255, 0>>))

\* C17: fetchSessionBalances returns, for each chain it was asked for, what
\* the read of that chain came back with: unknown when it failed, the balance
\* when it succeeded, whatever the read of the other chain did.
C17_IndependentChains ==
    fetch.pc = "returned" =>
        /\ fetch.solKey # NoKey => fetch.result.sol = fetch.sol
        /\ fetch.ethKey # NoKey => fetch.result.eth = fetch.eth

\* The SOL read failed and the ETH read succeeded: SOL unknown, ETH populated.
C17_Witness ==
    /\ fetch.pc = "returned"
    /\ fetch.solKey # NoKey
    /\ fetch.ethKey # NoKey
    /\ ~fetch.sol.known
    /\ fetch.eth = Known(1)
    /\ fetch.result = [sol |-> Unknown, eth |-> Known(1)]

\* C18: no revoke erases the key of a chain whose balance read failed in that
\* revoke.
C18_FailedReadNotZero == \A e \in erased : e.read # "unknown"

\* C19: a revoke whose SOL block ends, by success, failure or skip, goes on
\* to the ETH block when there is an ETH key and a connected wallet; and the
\* step in which a revoke returns leaves both storage entries removed and both
\* keys in memory cleared.
C19_RevokeCompletes ==
    [][\A q \in Revokes :
         /\ (/\ revoke[q].pc \in {"solBalance", "solRefund"}
             /\ revoke'[q].pc \notin {"solBalance", "solRefund"}
             /\ EntersEth(revoke[q]))
            => revoke'[q].pc = "ethBalance"
         /\ (revoke[q].pc # "idle" /\ revoke'[q].pc = "idle")
            => /\ storedKey' = NoKey
               /\ storedEthKey' = NoKey
               /\ sessionKey' = NoKey
               /\ ethSessionKey' = NoKey]_vars

\* A finished revoke whose SOL balance read failed and whose ETH refund went
\* out; nothing is left in storage or in memory.
C19_Witness ==
    /\ revokes = 1
    /\ Erasure("SOL", "unknown") \in erased
    /\ \E r \in refunds : r.chain = "ETH"
    /\ storedKey = NoKey
    /\ storedEthKey = NoKey
    /\ sessionKey = NoKey
    /\ ethSessionKey = NoKey

\* C20: the amount a refund keeps back is the fee the network asks for at
\* the time the refund is made.
C20_BufferFromLiveRate ==
    [][\A r \in refunds' \ refunds : r.buffer = FeeRate(r.chain, congestion)]_vars

\* The tool names handleSend has a branch for.
Handled == {"transferSOL", "transferETH", "getBalance"}

\* C21: a tool call whose name has no handler is never dropped in silence:
\* the chat gets a message for it.
C21_NoHandlerSurfaced ==
    \A call \in finished : call.name \notin Handled => call.said >= 1

\* C22: once a tool call has finished the chat holds exactly one message for
\* it, whatever its name and outcome.
C22_OneMessagePerToolCall ==
    \A call \in finished : call.said = 1

\* The handleSend invocations that are executing a tool call.
Executing == {p \in Sends : send[p].pc \in {"solBalance", "solSend", "ethSend",
                                            "getBalance"}}

\* C23: two tool-call executions of one session are never in flight at the
\* same time.
C23_OneToolCallInFlight == Cardinality(Executing) <= 1

\* C24: a transfer is shown as successful only after the network has
\* confirmed it.
C24_SuccessAfterConfirmation ==
    \A r \in reported : Transfer(r.chain, r.signer, r.to, r.amount) \in confirmed

\* C25: a funding has ended (the flag is cleared and the funding was reported
\* to the user) only when its transfer is confirmed.
C25_FundingEndsConfirmed ==
    \A c \in Chains :
        (funding[c].told /\ ~isFunding) => funding[c].status = "confirmed"

\* C26: a transfer asked for after the funding of its chain succeeds only
\* within the per-transaction limit of that chain.
C26_TransferAfterFundWithinPerTx ==
    \A r \in reported : r.funded => r.amount <= MaxPerTx(r.chain)

\* A step in which invocation p of handleSend ends a transfer of `chain` that
\* was handed to the network with a failure.
FailsAmbiguously(p, chain) ==
    /\ send[p].pc = (IF chain = "SOL" THEN "solSend" ELSE "ethSend")
    /\ send'[p].pc = "idle"
    /\ Transfer(chain, IF chain = "SOL" THEN send[p].sessionKey
                                        ELSE send[p].ethSessionKey,
                send[p].to, send[p].amount) \in submitted'
    /\ messages'[Len(messages')] = (IF chain = "SOL" THEN "SOL Transfer failed"
                                                     ELSE "ETH Transfer failed")

\* C27: when a transfer that was handed to the network fails, its amount stays
\* in the cumulative spend of its chain.
C27_AmbiguousFailureKeepsReservation ==
    [][\A p \in Sends, chain \in Chains :
          FailsAmbiguously(p, chain) =>
             (IF chain = "SOL" THEN spentSOL' ELSE spentETH') >= send[p].amount]_vars

\* C28: every started handleSend ends and isProcessing returns to false, also
\* when the network stops answering.
C28_EveryOperationEnds ==
    /\ \A p \in Sends : (send[p].pc # "idle") ~> (send[p].pc = "idle")
    /\ isProcessing ~> ~isProcessing

\* C29: an ETH amount with more decimal places than wei has is rejected, and
\* every other amount is converted to the amount times the scale.
C29_ExactScaling ==
    parsed.pc = "done" =>
        IF parsed.amount.places > EtherPlaces
          THEN ~parsed.result.ok
          ELSE /\ parsed.result.ok
               /\ parsed.result.value
                   = parsed.amount.digits * Pow10(EtherPlaces - parsed.amount.places)

\* C30: getQuote throws on a response that is not OK and on a quote whose
\* price impact is above maxPriceImpactPct; it returns no such quote.
C30_PriceImpactGuardrail ==
    quote.pc = "done" =>
        /\ quote.response # "ok" => quote.result.threw
        /\ (quote.offered.known /\ quote.offered.impact > quote.max)
              => quote.result.threw
        /\ ~quote.result.threw =>
              /\ quote.result.quote = quote.offered
              /\ quote.offered.known => quote.offered.impact <= quote.max

\* getQuote has thrown on an OK response whose quote is one hundredth above
\* the default limit.
C30_Witness ==
    /\ quote.pc = "done"
    /\ quote.response = "ok"
    /\ quote.max = DefaultMaxPriceImpactPct
    /\ quote.offered.known
    /\ quote.offered.impact = DefaultMaxPriceImpactPct + 1
    /\ quote.result.threw

\* C35: a validate call that rejects leaves spentSOL and spentETH as they
\* were.
C35_RejectedLeavesTotals ==
    [][\A t \in Tasks :
          (task[t].pc = "idle" /\ task'[t].pc = "rejected")
             => (spentSOL' = spentSOL /\ spentETH' = spentETH)]_vars

\* A request was rejected for the session limit after spends were recorded.
C35_Witness ==
    \E t \in Tasks :
        /\ task[t].pc = "rejected"
        /\ task[t].chain = "SOL"
        /\ task[t].outcome = "SessionLimitExceeded"
        /\ task[t].seen > 0
        /\ spentSOL = task[t].seen

\* The chain of the validator call made in a step.
StepOf(chain) ==
    \E t \in Tasks :
        /\ task'[t] # task[t]
        /\ (IF task[t].pc = "idle" THEN task'[t].chain ELSE task[t].chain) = chain

\* What the validator answers on a chain: the outcome of every request and
\* the usage it reports.
OutcomesSOL ==
    [a \in Recipients, n \in Amounts |-> validateSOL(config, spentSOL, a, n)]

OutcomesETH ==
    [a \in Recipients, n \in Amounts |-> validateETH(config, spentETH, a, n)]

UsageSOL == <<getUsage.spentSOL, getUsage.remainingSOL>>

UsageETH == <<getUsage.spentETH, getUsage.remainingETH>>

\* C36: a validate or addSpent call of one chain changes neither the total of
\* the other chain, nor the outcome of any request on it, nor its usage.
C36_ChainsIndependent ==
    [][/\ StepOf("SOL") => /\ spentETH' = spentETH
                            /\ OutcomesETH' = OutcomesETH
                            /\ UsageETH' = UsageETH
       /\ StepOf("ETH") => /\ spentSOL' = spentSOL
                            /\ OutcomesSOL' = OutcomesSOL
                            /\ UsageSOL' = UsageSOL]_vars

\* The SOL allowance is used up and an ETH request of the per-transaction
\* limit has been let through.
C36_Witness ==
    /\ spentSOL = config.maxSpendSOL
    /\ spentETH = 0
    /\ \E t \in Tasks : /\ task[t].pc = "approved"
                         /\ task[t].chain = "ETH"
                         /\ task[t].amount = config.maxPerTxETH

\* C39: transferSOL hands a transaction to the network only when the balance
\* it read is at least the amount; otherwise the call fails and nothing is
\* sent.
C39_NothingSentWhenInsufficient ==
    [][\A p \in Sends :
          send[p].pc = "solBalance" =>
             IF send'[p].pc = "solSend"
               THEN /\ send'[p].balance.known
                    /\ send'[p].balance.value >= send[p].amount
                    /\ Transfer("SOL", send[p].sessionKey, send[p].to, send[p].amount)
                          \in submitted'
               ELSE send'[p].pc = "idle" =>
                      /\ submitted' = submitted
                      /\ messages'[Len(messages')] = "SOL Transfer failed"]_vars

\* transferSOL has sent a transfer of exactly the balance it read.
C39_Witness ==
    \E p \in Sends :
        /\ send[p].pc = "solSend"
        /\ send[p].amount = 1
        /\ send[p].balance = Known(1)
        /\ Transfer("SOL", send[p].sessionKey, send[p].to, 1) \in submitted


\* C38: a funding that has been requested and is still with the wallet keeps
\* isFunding true, and at most one funding is in flight (requested or sent
\* and not yet confirmed or failed) at a time.
InFlight(c) == funding[c].status \in {"requested", "sent"}

C38_OneFundingInFlight ==
    /\ \A c \in Chains : funding[c].status = "requested" => isFunding
    /\ Cardinality({c \in Chains : InFlight(c)}) <= 1


\* C34: while the session holds a key in memory, that key is the one derived
\* from the secret persisted for its chain: the SOL keypair is the keypair of
\* the stored ai_session_key and the ETH key is the stored ai_session_key_eth.
C34_MemoryMatchesStorage ==
    /\ sessionKey # NoKey =>
         /\ ~RestoreThrows(storedKey)
         /\ sessionKey = restoreSolanaKeypair(storedKey)
    /\ ethSessionKey # NoKey => ethSessionKey = storedEthKey

\* A session generated after an earlier one was revoked: the second keys are
\* in memory and in storage.
C34_Witness ==
    /\ isOpen
    /\ erased # {}
    /\ sessionKey = Key(2)
    /\ storedKey = Key(2)
    /\ ethSessionKey = Key(2)
    /\ storedEthKey = Key(2)


\* The key is the one of the secret now persisted for the chain; a key whose
\* session was revoked is persisted no more.
Persisted(chain, k) ==
    IF chain = "SOL" THEN /\ ~RestoreThrows(storedKey)
                          /\ restoreSolanaKeypair(storedKey) = k
                     ELSE storedEthKey = k

\* C33: no transfer signed with the session key is submitted once the revoke
\* of that session has completed: every transfer a tool call hands to the
\* network is signed with a key whose session is not revoked.
C33_NoTransferAfterRevoke ==
    [][\A tx \in submitted' \ submitted : Persisted(tx.chain, tx.signer)]_vars


\* C32: the refund that revoke submits is attempted only when the balance
\* read exceeds the fee buffer, its amount is strictly positive, and amount
\* plus buffer does not exceed the balance read.
C32_RefundWellFormed ==
    refundTx.attempted =>
        /\ refundTx.balance > refundTx.buffer
        /\ refundTx.value > 0
        /\ refundTx.value + refundTx.buffer <= refundTx.balance


\* The messages sendMessage added for good: all but the placeholders.
Permanent(msgs) == SelectSeq(msgs, LAMBDA m : m.origin # "placeholder")

IsPrefix(a, b) == Len(a) <= Len(b) /\ SubSeq(b, 1, Len(a)) = a

\* C37: the history of useAgent is append-only apart from the placeholder:
\* every user or assistant message that was added stays, in its place, in
\* every later history, and once no tool call is running no placeholder is
\* left.
C37_HistoryAppendOnly ==
    [][/\ IsPrefix(Permanent(agentMessages), Permanent(agentMessages'))
       /\ (\A c \in AgentCalls : agent'[c].pc # "tool") =>
             \A i \in 1..Len(agentMessages') :
                 agentMessages'[i].origin # "placeholder"]_vars


\* A step that is a click on the toggle button.
Clicked == toggles' = toggles + 1

\* C31 as stated: in controlled mode the window shown is the prop and a click
\* does nothing but call onToggle with the negated prop; in uncontrolled mode
\* each click flips the widget's own state.
C31_AsStated ==
    [][/\ isControlled(controlledIsOpen') => shown' = controlledIsOpen'.value
       /\ (Clicked /\ isControlled(controlledIsOpen)) =>
             /\ internalIsOpen' = internalIsOpen
             /\ onToggle => notified' = Append(notified, ~controlledIsOpen.value)
       /\ (Clicked /\ ~isControlled(controlledIsOpen)) =>
             /\ internalIsOpen' = ~internalIsOpen
             /\ shown' = internalIsOpen'
             /\ notified' = notified]_vars

\* C31: in controlled mode the window shown is the prop; a click calls
\* onToggle with the negated prop and leaves the widget's own state alone
\* when onToggle is provided, and without onToggle it sets the widget's own
\* state to the negated prop, which is not shown while the prop is provided;
\* in uncontrolled mode each click flips the widget's own state, which is
\* what is shown.
C31_ControlledOrOwn ==
    [][/\ isControlled(controlledIsOpen') => shown' = controlledIsOpen'.value
       /\ (Clicked /\ isControlled(controlledIsOpen) /\ onToggle) =>
             /\ internalIsOpen' = internalIsOpen
             /\ notified' = Append(notified, ~controlledIsOpen.value)
             /\ shown' = shown
       /\ (Clicked /\ isControlled(controlledIsOpen) /\ ~onToggle) =>
             /\ internalIsOpen' = ~controlledIsOpen.value
             /\ notified' = notified
             /\ shown' = shown
       /\ (Clicked /\ ~isControlled(controlledIsOpen)) =>
             /\ internalIsOpen' = ~internalIsOpen
             /\ shown' = internalIsOpen'
             /\ notified' = notified]_vars

\* A controlled widget shown open while its own state is closed, after the
\* parent answered an onToggle(TRUE).
C31_Witness ==
    /\ controlledIsOpen = Passed(TRUE)
    /\ onToggle
    /\ shown
    /\ ~internalIsOpen
    /\ notified = <<TRUE>>

====
